---------------------------- MODULE Spec2Model ----------------------------
(***************************************************************************)
(* Website signal scanner of the lead-generation scripts:                  *)
(*   src/scan_calendars.py          calendar-booking detector              *)
(*   src/utils/scan_phone_numbers.py  phone-number "sniper"                *)
(* Python strings are TLA+ strings; a character is a string of length 1.   *)
(***************************************************************************)
EXTENDS Integers, Sequences, FiniteSets, TLC

VARIABLES
  ap_html,      \* analyze_page: the parsed page (sequence of elements)
  ap_url,       \* analyze_page: page_url
  ap_best,      \* analyze_page: best_score, best_evidence_url, best_type, best_detail
  ap_i,         \* analyze_page: position of the tag loop in the page
  ap_pc,        \* analyze_page: which check of the loop body is next
  mode,         \* which script runs: "calendar" or "phone"
  companies,    \* main: the rows of companies.csv
  semaphore,    \* main: the value of the asyncio.Semaphore
  task,         \* main: the state of each company's task
  completed,    \* the tasks in the order they finished (asyncio.as_completed)
  collected,    \* main: how many finished tasks the loop has awaited
  results,      \* main: what the awaited tasks returned
  main_pc,      \* main: "start", "gather", "done" or "aborted"
  output_csv,   \* the OUTPUT_CSV file
  observe,      \* whether the pages a scan fetches are recorded
  fetched,      \* per task, the fetches that completed (recorded when observe)
  pl_html,      \* process_company: the parsed page of one iteration
  pl_text,      \* process_company: text_content
  pl_matches,   \* process_company: matches
  pl_k,         \* process_company: position of the loop over matches
  pl_result,    \* process_company: what analyze_number returned last
  pl_leads,     \* process_company: found_leads and seen_numbers
  pl_pc,        \* process_company: where the iteration is
  pool,         \* how many tasks wait for, hold and have returned a permit
  nu_raw,       \* normalize_base_url: the argument raw
  nu_out,       \* normalize_base_url: what the call returned, or that it raised
  nu_pc,        \* normalize_base_url: "call", "return" or "raised"
  fc_prev,      \* find_contacts: the companies tracked before this run
  fc_tracking,  \* find_contacts: the companies in processed_companies.json
  fc_csv,       \* find_contacts: the companies of the rows of OUTPUT_CSV, in order
  fc_lock,      \* find_contacts: the holder of csv_lock, 0 when it is free
  fc_worker     \* find_contacts: per submitted company, where process_company is

apVars == <<ap_html, ap_url, ap_best, ap_i, ap_pc>>
plVars == <<pl_html, pl_text, pl_matches, pl_k, pl_result, pl_leads, pl_pc>>
runVars == <<mode, companies, semaphore, task, completed, collected, results,
             main_pc, output_csv, observe, fetched>>
nuVars == <<nu_raw, nu_out, nu_pc>>
fcVars == <<fc_prev, fc_tracking, fc_csv, fc_lock, fc_worker>>
vars == <<apVars, runVars, plVars, pool, nuVars, fcVars>>

-----------------------------------------------------------------------------
(* Python built-ins on strings *)

Null == "None"      \* Python's None; no string of the model spells it

UPPER == "ABCDEFGHIJKLMNOPQRSTUVWXYZ"
LOWER == "abcdefghijklmnopqrstuvwxyz"

Char(s, i) == SubSeq(s, i, i)

Max(a, b) == IF a >= b THEN a ELSE b
Min(a, b) == IF a <= b THEN a ELSE b

IsUpper(c) == \E i \in 1..Len(UPPER) : Char(UPPER, i) = c
IsLower(c) == \E i \in 1..Len(LOWER) : Char(LOWER, i) = c
IsSpace(c) == c \in {" ", "\t", "\n", "\r"}

LowerChar(c) ==
  IF IsUpper(c)
  THEN Char(LOWER, CHOOSE i \in 1..Len(UPPER) : Char(UPPER, i) = c)
  ELSE c

\* s.lower(), half by half
RECURSIVE ToLower(_)
ToLower(s) ==
  IF Len(s) <= 1 THEN LowerChar(s)
  ELSE ToLower(SubSeq(s, 1, Len(s) \div 2))
         \o ToLower(SubSeq(s, (Len(s) \div 2) + 1, Len(s)))

\* the least element of a non-empty set of numbers
First(starts) == CHOOSE k \in starts : \A j \in starts : k <= j

\* sub in s
Contains(s, sub) ==
  \E i \in 0..(Len(s) - Len(sub)) : SubSeq(s, i + 1, i + Len(sub)) = sub

\* s.find(sub): 0-based index of the first occurrence, -1 when there is none
Find(s, sub) ==
  IF Contains(s, sub)
  THEN CHOOSE i \in 0..(Len(s) - Len(sub)) :
         /\ SubSeq(s, i + 1, i + Len(sub)) = sub
         /\ \A j \in 0..(i - 1) : SubSeq(s, j + 1, j + Len(sub)) # sub
  ELSE -1

\* s[:n], s[-n:] and s[1:]
Prefix(s, n) == SubSeq(s, 1, Min(n, Len(s)))
Suffix(s, n) == SubSeq(s, Max(1, Len(s) - n + 1), Len(s))
DropFirst(s) == SubSeq(s, 2, Len(s))

StartsWith(s, p) == Len(s) >= Len(p) /\ SubSeq(s, 1, Len(p)) = p

RECURSIVE LStrip(_)
LStrip(s) ==
  IF s # "" /\ IsSpace(Char(s, 1)) THEN LStrip(SubSeq(s, 2, Len(s))) ELSE s

RECURSIVE RStrip(_)
RStrip(s) ==
  IF s # "" /\ IsSpace(Char(s, Len(s))) THEN RStrip(SubSeq(s, 1, Len(s) - 1)) ELSE s

Strip(s) == LStrip(RStrip(s))

RECURSIVE LStripChar(_, _)
LStripChar(s, c) ==
  IF s # "" /\ Char(s, 1) = c THEN LStripChar(SubSeq(s, 2, Len(s)), c) ELSE s

RECURSIVE RStripChar(_, _)
RStripChar(s, c) ==
  IF s # "" /\ Char(s, Len(s)) = c THEN RStripChar(SubSeq(s, 1, Len(s) - 1), c) ELSE s

\* a or b, on values that are None or strings
Or(a, b) == IF a # Null /\ a # "" THEN a ELSE b

-----------------------------------------------------------------------------
(* urllib.parse, as far as the scanners use it *)

SCHEME_CHARS == "abcdefghijklmnopqrstuvwxyzABCDEFGHIJKLMNOPQRSTUVWXYZ0123456789+-."

\* the text before the first of the characters of stops, and the rest
RECURSIVE CutFrom(_, _, _)
CutFrom(s, stops, k) ==
  IF k > Len(s) \/ Char(s, k) \in stops
  THEN [head |-> SubSeq(s, 1, k - 1), tail |-> SubSeq(s, k, Len(s))]
  ELSE CutFrom(s, stops, k + 1)

CutAt(s, stops) == CutFrom(s, stops, 1)

\* urlsplit, after the scheme and the netloc: fragment, then query
UrlParts(scheme, netloc, rest) ==
  [raises |-> Contains(netloc, "[") # Contains(netloc, "]"),
   scheme |-> scheme,
   netloc |-> netloc,
   path   |-> CutAt(CutAt(rest, {"#"}).head, {"?"}).head,
   query  |-> DropFirst(CutAt(CutAt(rest, {"#"}).head, {"?"}).tail)]

\* if url[:2] == '//': the netloc runs to the next '/', '?' or '#'
SplitNetloc(scheme, url) ==
  IF StartsWith(url, "//")
  THEN UrlParts(scheme,
                CutAt(SubSeq(url, 3, Len(url)), {"/", "?", "#"}).head,
                CutAt(SubSeq(url, 3, Len(url)), {"/", "?", "#"}).tail)
  ELSE UrlParts(scheme, "", url)

\* i = url.find(':'): a scheme is a run of scheme characters before the
\* first ':' that starts with a letter
SplitScheme(url, i) ==
  IF /\ i > 0
     /\ (IsUpper(Char(url, 1)) \/ IsLower(Char(url, 1)))
     /\ \A j \in 1..i : Contains(SCHEME_CHARS, Char(url, j))
  THEN SplitNetloc(ToLower(SubSeq(url, 1, i)), SubSeq(url, i + 2, Len(url)))
  ELSE SplitNetloc("", url)

\* urlparse(url); raises ValueError("Invalid IPv6 URL") on a netloc with an
\* unmatched bracket
urlparse(raw) == SplitScheme(LStrip(raw), Find(LStrip(raw), ":"))

\* the directory of a path: the path up to and including its last '/'
RECURSIVE DirOf(_)
DirOf(path) ==
  IF path = "" \/ Char(path, Len(path)) = "/" THEN path
  ELSE DirOf(SubSeq(path, 1, Len(path) - 1))

QueryPart(query) == IF query = "" THEN "" ELSE "?" \o query

JoinParts(url, b, u) ==
  IF u.scheme # "" /\ u.scheme # b.scheme THEN url
  ELSE IF u.netloc # "" THEN b.scheme \o "://" \o u.netloc \o u.path \o QueryPart(u.query)
  ELSE IF u.path = ""
  THEN b.scheme \o "://" \o b.netloc \o b.path
         \o QueryPart(IF u.query = "" THEN b.query ELSE u.query)
  ELSE IF StartsWith(u.path, "/")
  THEN b.scheme \o "://" \o b.netloc \o u.path \o QueryPart(u.query)
  ELSE b.scheme \o "://" \o b.netloc
         \o (IF DirOf(b.path) = "" THEN "/" ELSE DirOf(b.path))
         \o u.path \o QueryPart(u.query)

\* urljoin(base, url) for http(s) bases and urls without dot segments
urljoin(base, url) ==
  IF base = "" THEN url
  ELSE IF url = "" THEN base
  ELSE JoinParts(url, urlparse(base), urlparse(url))

-----------------------------------------------------------------------------
(* src/scan_calendars.py: the pattern tables *)

SCHEDULER_HOST_PATTERNS ==
  << "calendly.com",
     "hubspot.com/meetings",
     "acuityscheduling.com",
     "acuityscheduling.com",
     "youcanbook.me",
     "oncehub.com",
     "tidycal.com",
     "vcita.com",
     "squareup.com/appointments",
     "zoho.com/bookings",
     "microsoft.com/booking",
     "outlook.office365.com/book",
     "meetings.hubspot.com" >>

SCHEDULER_PATH_KEYWORDS ==
  << "schedule", "book", "booking", "appointment", "appointments",
     "consult", "consultation", "demo", "strategy-call" >>

\* each regular expression with the finite set of strings it matches
TEXT_PATTERNS ==
  << [pattern  |-> "schedule (a )?(call|meeting|demo)",
      language |-> {"schedule " \o a \o n : a \in {"a ", ""}, n \in {"call", "meeting", "demo"}}],
     [pattern  |-> "book (a )?(call|meeting|demo)",
      language |-> {"book " \o a \o n : a \in {"a ", ""}, n \in {"call", "meeting", "demo"}}],
     [pattern  |-> "schedule your (call|demo|consultation)",
      language |-> {"schedule your " \o n : n \in {"call", "demo", "consultation"}}],
     [pattern  |-> "book your (call|demo|consultation)",
      language |-> {"book your " \o n : n \in {"call", "demo", "consultation"}}],
     [pattern  |-> "schedule an? (appointment|intro)",
      language |-> {"schedule a" \o a \o " " \o n : a \in {"n", ""}, n \in {"appointment", "intro"}}],
     [pattern  |-> "owner (intro|consultation|call)",
      language |-> {"owner " \o n : n \in {"intro", "consultation", "call"}}] >>

\* re.search(pattern, text)
re_search(p, text) == \E w \in p.language : Contains(text, w)

-----------------------------------------------------------------------------
(* src/scan_calendars.py: analyze_page                                     *)
(* A parsed page is the sequence of its elements in document order, each   *)
(* [name, href, src, text]: href and src are the attribute values (None    *)
(* when absent) and text the element's own text.                           *)

NoEvidence == [score |-> 0, url |-> Null, type |-> Null, detail |-> Null]

update_ge(best, score, evidence_url, typ, detail) ==
  IF score >= best.score
  THEN [score |-> score, url |-> evidence_url, type |-> typ, detail |-> detail]
  ELSE best

update(best, score, evidence_url, typ, detail) ==
  IF score > best.score
  THEN [score |-> score, url |-> evidence_url, type |-> typ, detail |-> detail]
  ELSE best

IsLinkTag(tag) == tag.name \in {"a", "iframe", "script"}

\* href = tag.get("href") or tag.get("src")
HrefOf(tag) == Or(tag.href, tag.src)

HasHref(tag) == IsLinkTag(tag) /\ HrefOf(tag) # Null /\ HrefOf(tag) # ""

CheckHosts_90(best, full_url, href_lower, k) ==
  IF \E j \in k..Len(SCHEDULER_HOST_PATTERNS) :
       Contains(href_lower, SCHEDULER_HOST_PATTERNS[j])
  THEN update(best, 90, full_url, "external_scheduler", "matched scheduler host pattern")
  ELSE best

\* for pattern in SCHEDULER_HOST_PATTERNS, from the k-th pattern on
RECURSIVE CheckHosts(_, _, _, _)
CheckHosts(best, full_url, href_lower, k) ==
  IF k > Len(SCHEDULER_HOST_PATTERNS) THEN best
  ELSE LET pattern == SCHEDULER_HOST_PATTERNS[k]
       IN  CheckHosts(
             IF Contains(href_lower, pattern)
             THEN update(best, 100, full_url, "external_scheduler",
                         "matched scheduler host pattern: " \o pattern)
             ELSE best,
             full_url, href_lower, k + 1)

\* for kw in SCHEDULER_PATH_KEYWORDS, from the k-th keyword on
RECURSIVE CheckPaths(_, _, _, _)
CheckPaths(best, full_url, path, k) ==
  IF k > Len(SCHEDULER_PATH_KEYWORDS) THEN best
  ELSE LET kw == SCHEDULER_PATH_KEYWORDS[k]
       IN  CheckPaths(
             IF Contains(path, kw)
             THEN update(best, Max(best.score, 60), full_url, "internal_link",
                         "matched path keyword: " \o kw)
             ELSE best,
             full_url, path, k + 1)

\* path = (parsed.path or "").lower()
PathOf(full_url) == ToLower(urlparse(full_url).path)

CheckAnchor_ge(best, anchor_text, full_url) ==
  IF Contains(anchor_text, "schedule") \/ Contains(anchor_text, "book")
  THEN update_ge(best, Max(best.score, 50), full_url, "text",
                 "anchor text: " \o Prefix(anchor_text, 80))
  ELSE best

CheckAnchor_any(best, anchor_text, full_url) ==
  IF anchor_text # ""
  THEN update(best, Max(best.score, 50), full_url, "text",
              "anchor text: " \o Prefix(anchor_text, 80))
  ELSE best

\* anchor_text = (tag.get_text() or "").strip().lower()
CheckAnchor(best, anchor_text, full_url) ==
  IF Contains(anchor_text, "schedule") \/ Contains(anchor_text, "book")
  THEN update(best, Max(best.score, 50), full_url, "text",
              "anchor text: " \o Prefix(anchor_text, 80))
  ELSE best

AnchorText(tag) == ToLower(Strip(tag.text))

\* soup.get_text(separator=" ", strip=True): the stripped, non-empty texts
JoinText(t, rest, separator) ==
  IF t = "" THEN rest
  ELSE IF rest = "" THEN t
  ELSE t \o separator \o rest

RECURSIVE get_text(_)
get_text(html) ==
  IF html = <<>> THEN ""
  ELSE JoinText(Strip(Head(html).text), get_text(Tail(html)), " ")

CheckText_overwrite(best, full_text_lower, page_url, k) ==
  IF \E j \in k..Len(TEXT_PATTERNS) : re_search(TEXT_PATTERNS[j], full_text_lower)
  THEN [score |-> 70, url |-> page_url, type |-> "text",
        detail |-> "matched text pattern"]
  ELSE best

\* for pattern in TEXT_PATTERNS, from the k-th pattern on
RECURSIVE CheckText(_, _, _, _)
CheckText(best, full_text_lower, page_url, k) ==
  IF k > Len(TEXT_PATTERNS) THEN best
  ELSE CheckText(
         IF re_search(TEXT_PATTERNS[k], full_text_lower)
         THEN update(best, Max(best.score, 70), page_url, "text",
                     "matched text pattern: " \o TEXT_PATTERNS[k].pattern)
         ELSE best,
         full_text_lower, page_url, k + 1)

\* the body of the tag loop for one tag
CheckLink(best, tag, full_url) ==
  CheckAnchor(
    CheckPaths(CheckHosts(best, full_url, ToLower(full_url), 1),
               full_url, PathOf(full_url), 1),
    AnchorText(tag), full_url)

CheckTag(best, tag, page_url) ==
  IF ~HasHref(tag) THEN best
  ELSE CheckLink(best, tag, urljoin(page_url, HrefOf(tag)))

RECURSIVE CheckTags(_, _, _, _)
CheckTags(best, html, page_url, i) ==
  IF i > Len(html) THEN best
  ELSE CheckTags(CheckTag(best, html[i], page_url), html, page_url, i + 1)

analyze_page(html, page_url) ==
  CheckText(CheckTags(NoEvidence, html, page_url, 1),
            ToLower(get_text(html)), page_url, 1)

\* full_url = urljoin(page_url, href) raises ValueError when urlparse
\* rejects href ("Invalid IPv6 URL"); analyze_page does not catch it
urljoin_raises(base, url) == base # "" /\ url # "" /\ urlparse(url).raises

analyze_page_raises(html, page_url) ==
  \E i \in 1..Len(html) :
    HasHref(html[i]) /\ urljoin_raises(page_url, HrefOf(html[i]))

-----------------------------------------------------------------------------
(* The page fetchers.  What the network does with one GET is an outcome:   *)
(* a response with a status and a body, a timeout, or a connection error   *)
(* (DNS failure, refused connection, invalid URL).                         *)

Response(status, body) == [kind |-> "response", status |-> status, body |-> body]
Timeout == [kind |-> "timeout", status |-> 0, body |-> <<>>]
ConnectError == [kind |-> "connect_error", status |-> 0, body |-> <<>>]

\* what a fetcher hands to its caller: an exception, None, or the text
Raised == [raised |-> TRUE, none |-> TRUE, html |-> <<>>]
NoContent == [raised |-> FALSE, none |-> TRUE, html |-> <<>>]
Content(html) == [raised |-> FALSE, none |-> FALSE, html |-> html]

fetch_uncaught(outcome) ==
  IF outcome.kind # "response" THEN Raised
  ELSE IF outcome.status >= 400 THEN NoContent
  ELSE Content(outcome.body)

\* scan_calendars.fetch: try: ... except Exception: return url, None
fetch(outcome) ==
  IF outcome.kind # "response" THEN NoContent
  ELSE IF outcome.status >= 400 THEN NoContent
  ELSE Content(outcome.body)

\* if not html
NotHtml(r) == r.none \/ r.html = <<>>

-----------------------------------------------------------------------------
(* src/scan_calendars.py: normalize_base_url, scan_site *)

CANDIDATE_PATHS ==
  << "", "/contact", "/contact-us", "/contactus", "/owners", "/owner",
     "/owner-services", "/property-management", "/property-management/",
     "/management", "/schedule", "/book", "/book-now", "/demo", "/consult",
     "/consultation" >>

Value(v) == [raises |-> FALSE, value |-> v]
Raises == [raises |-> TRUE, value |-> ""]

normalize_base_url_unstripped(raw) ==
  IF raw = Null THEN Raises
  ELSE IF raw = "" THEN Value("")
  ELSE IF urlparse(raw).raises THEN Raises
  ELSE IF urlparse(raw).scheme = "" THEN Value("https://" \o raw)
  ELSE Value(raw)

\* raw is None when the row of the CSV is shorter than the header
\* (csv.DictReader): None.strip() raises AttributeError
normalize_base_url(raw) ==
  IF raw = Null THEN Raises
  ELSE LET stripped == Strip(raw)
       IN  IF stripped = "" THEN Value("")
           ELSE IF urlparse(stripped).raises THEN Raises
           ELSE IF urlparse(stripped).scheme = "" THEN Value("https://" \o stripped)
           ELSE Value(stripped)

ScanResult(company_name, website, score, evidence_url, evidence_type, evidence_detail) ==
  [company_name |-> company_name, website |-> website,
   calendar_confidence |-> score, evidence_url |-> evidence_url,
   evidence_type |-> evidence_type, evidence_detail |-> evidence_detail]

\* urljoin(base_url.rstrip("/") + "/", path.lstrip("/"))
CandidateUrl(base_url, path) ==
  urljoin(RStripChar(base_url, "/") \o "/", LStripChar(path, "/"))

-----------------------------------------------------------------------------
(* src/utils/scan_phone_numbers.py: the filters of the phone scraper *)

PAGES_TO_SCAN ==
  << "/contact", "/contact-us", "/about", "/about-us", "/our-team",
     "/meet-the-team", "/staff", "/owners", "/property-management", "/emergency" >>

BLACKLIST_CONTEXT ==
  << "llc", "license", "broker", "registered", "copyright", "reserved",
     "fax", "facsimile", "toll free", "reservations", "bookings", "front desk" >>

CATEGORIES ==
  [ OPS_MAINTENANCE |->
      [keywords |-> << "emergency", "after hours", "urgent", "maintenance", "on-call",
                       "housekeeping", "cleaning", "inspector", "field" >>,
       strategy |-> "Vendor/Maintenance Script"],
    DIRECT_MOBILE |->
      [keywords |-> << "cell", "mobile", "direct", "text", "sms", "personal" >>,
       strategy |-> "Text First / Direct Call"],
    GROWTH_OWNER |->
      [keywords |-> << "owner services", "property management", "list with us",
                       "homeowner", "revenue", "partnership" >>,
       strategy |-> "Asset Protection Script"],
    NAMED_CONTACT |->
      [keywords |-> << >>, strategy |-> "Name Drop Call"] ]

\* fetch_html: the text of a 200 response, "" for anything else
fetch_html(outcome) ==
  IF outcome.kind = "response" /\ outcome.status = 200
  THEN Content(outcome.body)
  ELSE Content(<<>>)

\* " ".join(text.split()) on s[lo..hi], for a text s without leading or
\* trailing blanks: the last blank of every run of blanks becomes " "
RECURSIVE Squeeze(_, _, _)
Squeeze(s, lo, hi) ==
  IF lo > hi THEN ""
  ELSE IF lo = hi
  THEN IF ~IsSpace(Char(s, lo)) THEN Char(s, lo)
       ELSE IF lo < Len(s) /\ IsSpace(Char(s, lo + 1)) THEN ""
       ELSE " "
  ELSE Squeeze(s, lo, (lo + hi) \div 2) \o Squeeze(s, ((lo + hi) \div 2) + 1, hi)

SqueezeAll(s) == Squeeze(s, 1, Len(s))

clean_text(text) == SqueezeAll(Strip(text))

\* the end of the run [a-z]* that starts at position k (k - 1 when empty)
RECURSIVE LowerRunEnd(_, _)
LowerRunEnd(segment, k) ==
  IF k <= Len(segment) /\ IsLower(Char(segment, k))
  THEN LowerRunEnd(segment, k + 1)
  ELSE k - 1

\* the end of a match of [A-Z][a-z]+ at position k, 0 when there is none
WordEnd(segment, k) ==
  IF k >= 1 /\ k <= Len(segment) /\ IsUpper(Char(segment, k))
     /\ LowerRunEnd(segment, k + 1) > k
  THEN LowerRunEnd(segment, k + 1)
  ELSE 0

\* the end of a match of \s[A-Z][a-z]+ right after position e
NextWordEnd(segment, e) ==
  IF e >= 1 /\ e + 1 <= Len(segment) /\ IsSpace(Char(segment, e + 1))
  THEN WordEnd(segment, e + 2)
  ELSE 0

\* the end of the greedy match of (?:\s[A-Z][a-z]+){1,2} after a first
\* word that ends at e1
MoreWordsEnd(segment, e1, e2) ==
  IF e1 = 0 \/ e2 = 0 THEN 0
  ELSE IF NextWordEnd(segment, e2) > 0 THEN NextWordEnd(segment, e2)
  ELSE e2

NameEnd_one_word(segment, k) ==
  IF MoreWordsEnd(segment, WordEnd(segment, k),
                  NextWordEnd(segment, WordEnd(segment, k))) > 0
  THEN MoreWordsEnd(segment, WordEnd(segment, k),
                    NextWordEnd(segment, WordEnd(segment, k)))
  ELSE WordEnd(segment, k)

NameEnd(segment, k) ==
  MoreWordsEnd(segment, WordEnd(segment, k), NextWordEnd(segment, WordEnd(segment, k)))

NameFrom(segment, k) == SubSeq(segment, k, NameEnd(segment, k))

\* re.search(r'([A-Z][a-z]+(?:\s[A-Z][a-z]+){1,2})', segment): the leftmost
\* match
NameSearch(segment) ==
  IF \A k \in 1..Len(segment) : NameEnd(segment, k) = 0 THEN Null
  ELSE NameFrom(segment, First({k \in 1..Len(segment) : NameEnd(segment, k) > 0}))

FALSE_POSITIVES ==
  {"Contact Us", "Call Us", "Toll Free", "Phone Number", "Emergency Call", "After Hours"}

\* if name.lower() in [...]: return None
FilterName(name) ==
  IF name # Null /\ ToLower(name) \in FALSE_POSITIVES THEN Null ELSE name

extract_name_before_number(text_before) ==
  FilterName(NameSearch(Suffix(text_before, 40)))

\* any(k in full_context for k in words)
ContainsAny(full_context, words) ==
  \E k \in 1..Len(words) : Contains(full_context, words[k])

Blacklisted_never(full_context) == FALSE

Blacklisted(full_context) == ContainsAny(full_context, BLACKLIST_CONTEXT)

CategoryOf_by_confidence(full_context) ==
  IF ContainsAny(full_context, CATEGORIES.DIRECT_MOBILE.keywords) THEN "DIRECT_MOBILE"
  ELSE IF ContainsAny(full_context, CATEGORIES.OPS_MAINTENANCE.keywords) THEN "OPS_MAINTENANCE"
  ELSE IF ContainsAny(full_context, CATEGORIES.GROWTH_OWNER.keywords) THEN "GROWTH_OWNER"
  ELSE Null

\* the if / elif chain of the category check
CategoryOf(full_context) ==
  IF ContainsAny(full_context, CATEGORIES.OPS_MAINTENANCE.keywords) THEN "OPS_MAINTENANCE"
  ELSE IF ContainsAny(full_context, CATEGORIES.DIRECT_MOBILE.keywords) THEN "DIRECT_MOBILE"
  ELSE IF ContainsAny(full_context, CATEGORIES.GROWTH_OWNER.keywords) THEN "GROWTH_OWNER"
  ELSE Null

CategoryConfidence_full(category) == 100

CategoryConfidence(category) ==
  CASE category = "OPS_MAINTENANCE" -> 90
    [] category = "DIRECT_MOBILE" -> 95
    [] category = "GROWTH_OWNER" -> 85
    [] OTHER -> 0

\* analyze_number returns None
NoResult ==
  [none |-> TRUE, company_name |-> "", website |-> "", phone_number |-> "",
   contact_name |-> Null, role_or_context |-> "", category |-> Null,
   suggested_strategy |-> Null, confidence_score |-> 0]

SniperResult(phone_number, contact_name, role_or_context, category, confidence_score) ==
  [none |-> FALSE, company_name |-> "", website |-> "", phone_number |-> phone_number,
   contact_name |-> contact_name, role_or_context |-> role_or_context,
   category |-> category, suggested_strategy |-> CATEGORIES[category].strategy,
   confidence_score |-> confidence_score]

Decide_admit_all(formatted_number, text_before, text_after, category, extracted_name) ==
  SniperResult(
    formatted_number, extracted_name,
    clean_text(Suffix(text_before, 30) \o " [NUM] " \o Prefix(text_after, 30)),
    IF category = Null THEN "NAMED_CONTACT" ELSE category,
    IF category = Null THEN 80
    ELSE IF extracted_name # Null THEN 100
    ELSE CategoryConfidence(category))

\* the name check and the final decision
Decide(formatted_number, text_before, text_after, category, extracted_name) ==
  IF category = Null /\ extracted_name = Null THEN NoResult
  ELSE SniperResult(
         formatted_number, extracted_name,
         clean_text(Suffix(text_before, 30) \o " [NUM] " \o Prefix(text_after, 30)),
         IF category = Null THEN "NAMED_CONTACT" ELSE category,
         IF category = Null THEN 80
         ELSE IF extracted_name # Null THEN 100
         ELSE CategoryConfidence(category))

AnalyzeContext(formatted_number, text_before, text_after, full_context) ==
  IF Blacklisted(full_context) THEN NoResult
  ELSE Decide(formatted_number, text_before, text_after,
              CategoryOf(full_context), extract_name_before_number(text_before))

\* text_content[max(0, match_start - 60):match_start]
TextBefore(text_content, match_start) ==
  SubSeq(text_content, Max(0, match_start - 60) + 1, match_start)

\* text_content[match_end:min(len(text_content), match_end + 60)]
TextAfter(text_content, match_end) ==
  SubSeq(text_content, match_end + 1, Min(Len(text_content), match_end + 60))

FullContext(text_before, text_after) == ToLower(text_before \o " " \o text_after)

analyze_number(formatted_number, text_content, match_start, match_end) ==
  AnalyzeContext(formatted_number,
                 TextBefore(text_content, match_start),
                 TextAfter(text_content, match_end),
                 FullContext(TextBefore(text_content, match_start),
                             TextAfter(text_content, match_end)))

-----------------------------------------------------------------------------
(* phonenumbers.PhoneNumberMatcher(text, "US") for the two ways the pages  *)
(* below write a number, "(NXX) NXX-XXXX" and "NXX-NXX-XXXX"; a match is   *)
(* [start, end, number] with Python's 0-based offsets and the number in    *)
(* NATIONAL format.                                                        *)

IsDigit(c) == Contains("0123456789", c)

Digits(text, from, to) == \A i \in from..to : IsDigit(Char(text, i))

\* area code and exchange of a US number start with 2..9
IsValidNumber(area, exchange) ==
  /\ Char(area, 1) \notin {"0", "1"}
  /\ Char(exchange, 1) \notin {"0", "1"}

ParenAt(text, k) ==
  /\ k + 13 <= Len(text)
  /\ Char(text, k) = "(" /\ Digits(text, k + 1, k + 3)
  /\ SubSeq(text, k + 4, k + 5) = ") " /\ Digits(text, k + 6, k + 8)
  /\ Char(text, k + 9) = "-" /\ Digits(text, k + 10, k + 13)
  /\ IsValidNumber(SubSeq(text, k + 1, k + 3), SubSeq(text, k + 6, k + 8))

DashAt(text, k) ==
  /\ k + 11 <= Len(text)
  /\ Digits(text, k, k + 2) /\ Char(text, k + 3) = "-"
  /\ Digits(text, k + 4, k + 6) /\ Char(text, k + 7) = "-"
  /\ Digits(text, k + 8, k + 11)
  /\ IsValidNumber(SubSeq(text, k, k + 2), SubSeq(text, k + 4, k + 6))

\* phonenumbers.format_number(number, PhoneNumberFormat.NATIONAL)
format_number(area, exchange, line) == "(" \o area \o ") " \o exchange \o "-" \o line

Match(start, end, number) == [start |-> start, end |-> end, number |-> number]

\* the match that starts at position k of the text
MatchAt(text, k) ==
  IF ParenAt(text, k)
  THEN Match(k - 1, k + 13, SubSeq(text, k, k + 13))
  ELSE Match(k - 1, k + 11,
             format_number(SubSeq(text, k, k + 2), SubSeq(text, k + 4, k + 6),
                           SubSeq(text, k + 8, k + 11)))

MatchStarts(text) == {k \in 1..Len(text) : ParenAt(text, k) \/ DashAt(text, k)}

\* the matches in the order of the text; a match ends before the next starts
RECURSIVE MatchesFrom(_, _, _)
MatchesAfter(text, starts, m) == <<m>> \o MatchesFrom(text, starts, m.end + 1)

MatchesFrom(text, starts, from) ==
  IF {k \in starts : k >= from} = {} THEN <<>>
  ELSE MatchesAfter(text, starts, MatchAt(text, First({k \in starts : k >= from})))

PhoneNumberMatcher(text) == MatchesFrom(text, MatchStarts(text), 1)

-----------------------------------------------------------------------------
(* src/utils/scan_phone_numbers.py: process_company *)

\* for script in soup(["script", "style", "noscript", "footer"]): decompose()
DECOMPOSED == {"script", "style", "noscript", "footer"}

\* soup.get_text(separator=" | ") of what is left
RECURSIVE text_content(_)
text_content(html) ==
  IF html = <<>> THEN ""
  ELSE IF Head(html).name \in DECOMPOSED THEN text_content(Tail(html))
  ELSE JoinText(Head(html).text, text_content(Tail(html)), " | ")

matches(text) == PhoneNumberMatcher(text)

DENSITY_LIMIT == 15

TooDense_16(ms) == Len(ms) > DENSITY_LIMIT + 1

\* if len(matches) > 15: continue
TooDense(ms) == Len(ms) > DENSITY_LIMIT

NoLeads == [found_leads |-> <<>>, seen_numbers |-> {}]

AddLead_all(acc, result, company_name, base_url) ==
  IF ~result.none
  THEN [found_leads |->
          Append(acc.found_leads,
                 [result EXCEPT !.company_name = company_name, !.website = base_url]),
        seen_numbers |-> acc.seen_numbers \cup {result.phone_number}]
  ELSE acc

\* if result and result.phone_number not in seen_numbers: ...
AddLead(acc, result, company_name, base_url) ==
  IF ~result.none /\ result.phone_number \notin acc.seen_numbers
  THEN [found_leads |->
          Append(acc.found_leads,
                 [result EXCEPT !.company_name = company_name, !.website = base_url]),
        seen_numbers |-> acc.seen_numbers \cup {result.phone_number}]
  ELSE acc

\* for match in matches, from the k-th match on
RECURSIVE ScanMatches(_, _, _, _, _, _)
ScanMatches(acc, text, ms, k, company_name, base_url) ==
  IF k > Len(ms) THEN acc
  ELSE ScanMatches(
         AddLead(acc, analyze_number(ms[k].number, text, ms[k].start, ms[k].end),
                 company_name, base_url),
         text, ms, k + 1, company_name, base_url)

\* the body of the loop over urls_to_scan for a page that was fetched
ScanText(acc, text, ms, company_name, base_url) ==
  IF TooDense(ms) THEN acc
  ELSE ScanMatches(acc, text, ms, 1, company_name, base_url)

ScanPage(acc, html, company_name, base_url) ==
  ScanText(acc, text_content(html), matches(text_content(html)), company_name, base_url)

\* if not base_url.startswith("http"): base_url = "https://" + base_url
WithScheme(base_url) ==
  IF StartsWith(base_url, "http") THEN base_url ELSE "https://" \o base_url

\* base_domain = f"{parsed_base.scheme}://{parsed_base.netloc}"
BaseDomain(parsed_base) == parsed_base.scheme \o "://" \o parsed_base.netloc

\* process_company up to its loop: the exception, or base_url and the set
\* urls_to_scan
NoUrls(raises) == [raises |-> raises, value |-> "", urls |-> {}]

UrlsToScan(base_url, parsed_base, pages) ==
  IF parsed_base.raises THEN NoUrls(TRUE)
  ELSE [raises |-> FALSE, value |-> base_url,
        urls |-> {base_url}
                   \cup {urljoin(BaseDomain(parsed_base), pages[i]) : i \in 1..Len(pages)}]

urls_to_scan(raw, pages) ==
  IF raw = Null THEN NoUrls(TRUE)
  ELSE IF Strip(raw) = "" THEN NoUrls(FALSE)
  ELSE UrlsToScan(WithScheme(Strip(raw)), urlparse(WithScheme(Strip(raw))), pages)

-----------------------------------------------------------------------------
(* Bounds and inputs of a run *)

MaxCompanies == 2      \* companies in companies.csv
MaxPaths == 2          \* how many of the CANDIDATE_PATHS a scan probes
MaxTags == 3           \* elements of a page given to analyze_page
MaxPages == 1          \* how many of the PAGES_TO_SCAN a phone scan adds

Paths == SubSeq(CANDIDATE_PATHS, 1, Min(MaxPaths, Len(CANDIDATE_PATHS)))

Tag(name, href, src, text) == [name |-> name, href |-> href, src |-> src, text |-> text]

Elements ==
  { Tag("a", "https://calendly.com/acme", Null, "Book a call"),
    Tag("iframe", Null, "https://Calendly.com/demo", ""),
    Tag("a", "/book-now", Null, "Reserve"),
    Tag("a", "/consult", Null, "Visit"),
    Tag("a", "/about", Null, " Schedule "),
    Tag("a", "team.html", Null, "About us"),
    Tag("a", "http://[acme", Null, "Book online"),
    Tag("script", Null, "/static/app.js", ""),
    Tag("a", Null, Null, "Book"),
    Tag("p", Null, Null, "Schedule a demo today") }

SeqsUpTo(S, n) == UNION {[1..k -> S] : k \in 0..n}

PageUrls == {"https://acme.com/contact"}

\* the website column: missing, empty, blank, without and with a scheme,
\* and one that urlparse rejects
Websites == {Null, "", "  ", " acme.com ", "http://[acme"}

CompanyNames == <<"Acme", "Beta", "Gamma", "Delta", "Epsilon">>

CompanyLists ==
  { [c \in 1..n |-> [company_name |-> CompanyNames[c], website |-> w[c]]] :
      n \in 0..MaxCompanies, w \in [1..MaxCompanies -> Websites] }

\* the bodies a calendar scan is served
CalendarBodies ==
  { <<>>,
    <<Tag("a", "team.html", Null, "About us")>>,
    <<Tag("a", "http://[acme", Null, "Book online")>>,
    <<Tag("a", "/about", Null, " Schedule ")>>,
    <<Tag("a", "/book-now", Null, "Reserve")>>,
    <<Tag("p", Null, Null, "Schedule a demo today")>>,
    <<Tag("a", "https://calendly.com/acme", Null, "Book a call")>>,
    <<Tag("a", "/about", Null, " Schedule "), Tag("a", "/consult", Null, "Visit")>>,
    <<Tag("a", "/book-now", Null, "Reserve"),
      Tag("iframe", Null, "https://Calendly.com/demo", "")>> }

CalendarOutcomes ==
  {Timeout, ConnectError}
    \cup {Response(200, b) : b \in CalendarBodies}
    \cup {Response(203, <<Tag("a", "/book-now", Null, "Reserve")>>),
          Response(404, <<Tag("a", "https://calendly.com/acme", Null, "Book a call")>>)}

PhonePages == SubSeq(PAGES_TO_SCAN, 1, Min(MaxPages, Len(PAGES_TO_SCAN)))

\* the bodies a phone scan is served: a named contact, and the same number
\* written another way next to a keyword
PhoneBodies ==
  { <<Tag("p", Null, Null, "Call Greg Ku at (415) 555-0101 for owner services")>>,
    <<Tag("p", Null, Null, "Mobile: 415-555-0101"),
      Tag("footer", Null, Null, "Emergency 415-555-0199")>> }

PhoneOutcomes ==
  {Timeout}
    \cup {Response(200, b) : b \in PhoneBodies}
    \cup {Response(203, <<Tag("p", Null, Null, "Mobile: 415-555-0101")>>),
          Response(404, <<Tag("p", Null, Null, "Mobile: 415-555-0101")>>)}

\* the values the runs below need, computed once
BaseUrls == {normalize_base_url(w).value : w \in Websites} \ {""}
CalendarUrls == {CandidateUrl(b, Paths[i]) : b \in BaseUrls, i \in 1..Len(Paths)}
Normalized == [w \in Websites |-> normalize_base_url(w)]
Candidate == [b \in BaseUrls |-> [i \in 1..Len(Paths) |-> CandidateUrl(b, Paths[i])]]
AnalyzeRaises == [html \in CalendarBodies |-> analyze_page_raises(html, "https://acme.com")]
Analyzed ==
  [html \in CalendarBodies |->
     [u \in CalendarUrls |-> IF AnalyzeRaises[html] THEN NoEvidence ELSE analyze_page(html, u)]]
Urls == [w \in Websites |-> urls_to_scan(w, PhonePages)]

-----------------------------------------------------------------------------
(* main: the semaphore, the tasks, the loop over asyncio.as_completed *)

CONFIDENCE_THRESHOLD == 60
CALENDAR_CONCURRENCY == 20     \* asyncio.Semaphore(20)
MAX_CONCURRENT_SITES == 30

Limit(m) == IF m = "calendar" THEN CALENDAR_CONCURRENCY ELSE MAX_CONCURRENT_SITES

\* asyncio.Semaphore: acquire() proceeds only while the value is positive
always_free(value) == TRUE
can_acquire(value) == value > 0
acquire_free(value) == value
acquire(value) == value - 1
release(value) == value + 1

NewTask ==
  [pc |-> "created", idx |-> 0, url |-> "", base_url |-> "", todo |-> {},
   best |-> NoEvidence, found_leads |-> <<>>, seen_numbers |-> {}, result |-> <<>>]

NoFile == [exists |-> FALSE, lines |-> <<>>]
StaleFile == [exists |-> TRUE, lines |-> <<[kind |-> "stale", data |-> <<>>]>>]
HeaderLine == [kind |-> "header", data |-> <<>>]
RowLine(r) == [kind |-> "row", data |-> r]
RowLines(rs) == [i \in 1..Len(rs) |-> RowLine(rs[i])]

Finished(t) == t.pc \in {"done", "raised", "cancelled"}

\* the task ends: its permit goes back and as_completed yields it
Finish(c, t, sem) ==
  /\ task' = [task EXCEPT ![c] = t]
  /\ completed' = Append(completed, c)
  /\ semaphore' = release(sem)

Record(c, url, outcome) ==
  fetched' = IF observe
             THEN [fetched EXCEPT ![c] = Append(@, [url |-> url, outcome |-> outcome])]
             ELSE fetched

\* main up to the creation of the tasks; the phone scraper first deletes
\* the report of an earlier run
MainStart ==
  /\ main_pc = "start"
  /\ main_pc' = "gather"
  /\ output_csv' = IF mode = "phone" THEN NoFile ELSE output_csv
  /\ UNCHANGED <<mode, companies, semaphore, task, completed, collected, results,
                 observe, fetched, apVars, plVars, pool, nuVars, fcVars>>

\* wrapped_scan up to the first await of scan_site that suspends
CalStart(c) ==
  /\ mode = "calendar" /\ main_pc = "gather"
  /\ task[c].pc = "created"
  /\ can_acquire(semaphore)
  /\ LET company == companies[c]
         base == Normalized[company.website]
     IN  IF base.raises
         THEN Finish(c, [task[c] EXCEPT !.pc = "raised"], acquire(semaphore))
         ELSE IF base.value = ""
         THEN Finish(c, [task[c] EXCEPT !.pc = "done",
                           !.result = ScanResult(company.company_name, "", 0,
                                                 Null, Null, "no_website")],
                     acquire(semaphore))
         ELSE /\ task' = [task EXCEPT ![c] =
                            [@ EXCEPT !.pc = "fetching", !.idx = 1,
                                      !.base_url = base.value,
                                      !.url = Candidate[base.value][1]]]
              /\ semaphore' = acquire(semaphore)
              /\ UNCHANGED completed
  /\ UNCHANGED <<mode, companies, collected, results, main_pc, output_csv,
                 observe, fetched, apVars, plVars, pool, nuVars, fcVars>>

KeepBest_ge(best, ev) == IF ev.score >= best.score THEN ev ELSE best

\* if score > best_score: best_score = score; ...
KeepBest(best, ev) == IF ev.score > best.score THEN ev ELSE best

EarlyExit_never(best_score) == FALSE

\* if best_score >= 95: break
EarlyExit(best_score) == best_score >= 95

\* scan_site when fetch returns what the outcome gives: from the await of
\* one iteration of the loop to the await of the next, or to the return
ScanSiteStep(c, outcome) ==
  LET t == task[c]
      r == fetch(outcome)
      ev == Analyzed[r.html][t.url]
      best == IF NotHtml(r) THEN t.best ELSE KeepBest(t.best, ev)
      stop == (~NotHtml(r) /\ EarlyExit(best.score)) \/ t.idx = Len(Paths)
  IN  IF r.raised \/ (~NotHtml(r) /\ AnalyzeRaises[r.html])
      THEN Finish(c, [t EXCEPT !.pc = "raised"], semaphore)
      ELSE IF stop
      THEN Finish(c, [t EXCEPT !.pc = "done", !.best = best,
                        !.result = ScanResult(companies[c].company_name, t.base_url,
                                              best.score, best.url, best.type,
                                              best.detail)],
                  semaphore)
      ELSE /\ task' = [task EXCEPT ![c] =
                         [t EXCEPT !.idx = t.idx + 1, !.best = best,
                                   !.url = Candidate[t.base_url][t.idx + 1]]]
           /\ UNCHANGED <<semaphore, completed>>

CalFetchDone(c) ==
  /\ mode = "calendar"
  /\ task[c].pc = "fetching"
  /\ \E outcome \in CalendarOutcomes :
       /\ ScanSiteStep(c, outcome)
       /\ Record(c, task[c].url, outcome)
  /\ UNCHANGED <<mode, companies, collected, results, main_pc, output_csv,
                 observe, apVars, plVars, pool, nuVars, fcVars>>

append_to_csv_with_header(file, rs) ==
  IF rs = <<>> THEN file
  ELSE [exists |-> TRUE, lines |-> file.lines \o <<HeaderLine>> \o RowLines(rs)]

\* append_to_csv: nothing for an empty list; the header only when the file
\* does not exist yet
append_to_csv(file, rs) ==
  IF rs = <<>> THEN file
  ELSE [exists |-> TRUE,
        lines |-> file.lines \o (IF file.exists THEN <<>> ELSE <<HeaderLine>>)
                    \o RowLines(rs)]

\* worker up to the first await of process_company that suspends
PhoneStart(c) ==
  /\ mode = "phone" /\ main_pc = "gather"
  /\ task[c].pc = "created"
  /\ can_acquire(semaphore)
  /\ LET u == Urls[companies[c].website]
     IN  IF u.raises
         THEN Finish(c, [task[c] EXCEPT !.pc = "raised"], acquire(semaphore))
         ELSE IF u.value = ""
         THEN Finish(c, [task[c] EXCEPT !.pc = "done", !.result = <<>>],
                     acquire(semaphore))
         ELSE /\ \E url \in u.urls :
                   task' = [task EXCEPT ![c] =
                              [@ EXCEPT !.pc = "fetching", !.base_url = u.value,
                                        !.url = url, !.todo = u.urls \ {url}]]
              /\ semaphore' = acquire(semaphore)
              /\ UNCHANGED completed
  /\ UNCHANGED <<mode, companies, collected, results, main_pc, output_csv,
                 observe, fetched, apVars, plVars, pool, nuVars, fcVars>>

\* process_company when fetch_html returns what the outcome gives: from the
\* await of one iteration to the await of the next, or to the return and
\* the rest of worker
ProcessCompanyStep(c, t, leads) ==
  IF t.todo = {}
  THEN /\ Finish(c, [t EXCEPT !.pc = "done", !.found_leads = leads.found_leads,
                              !.seen_numbers = leads.seen_numbers,
                              !.result = leads.found_leads],
                 semaphore)
       /\ output_csv' = append_to_csv(output_csv, leads.found_leads)
  ELSE /\ \E url \in t.todo :
            task' = [task EXCEPT ![c] =
                       [t EXCEPT !.found_leads = leads.found_leads,
                                 !.seen_numbers = leads.seen_numbers,
                                 !.url = url, !.todo = t.todo \ {url}]]
       /\ UNCHANGED <<semaphore, completed, output_csv>>

AfterFetch(t, r, company_name) ==
  IF NotHtml(r) THEN [found_leads |-> t.found_leads, seen_numbers |-> t.seen_numbers]
  ELSE ScanPage([found_leads |-> t.found_leads, seen_numbers |-> t.seen_numbers],
                r.html, company_name, t.base_url)

PhoneFetchDone(c) ==
  /\ mode = "phone"
  /\ task[c].pc = "fetching"
  /\ \E outcome \in PhoneOutcomes :
       /\ ProcessCompanyStep(c, task[c],
                             AfterFetch(task[c], fetch_html(outcome),
                                        companies[c].company_name))
       /\ Record(c, task[c].url, outcome)
  /\ UNCHANGED <<mode, companies, collected, results, main_pc, observe, apVars, plVars, pool, nuVars, fcVars>>

\* what `await task` gives main for a finished task
Awaited(c) == IF mode = "calendar" THEN task[c].result ELSE Len(task[c].result)

\* one iteration of the loop over as_completed; awaiting a task that raised
\* raises in main, and asyncio.run then cancels the tasks still running
MainCollect ==
  /\ main_pc = "gather"
  /\ collected < Len(completed)
  /\ LET c == completed[collected + 1]
     IN  IF task[c].pc = "raised"
         THEN /\ main_pc' = "aborted"
              /\ task' = [d \in DOMAIN task |->
                            IF Finished(task[d]) THEN task[d]
                            ELSE [task[d] EXCEPT !.pc = "cancelled"]]
              /\ semaphore' = Limit(mode)
              /\ UNCHANGED <<collected, results>>
         ELSE /\ results' = Append(results, Awaited(c))
              /\ collected' = collected + 1
              /\ UNCHANGED <<main_pc, task, semaphore>>
  /\ UNCHANGED <<mode, companies, completed, output_csv, observe, fetched, apVars, plVars, pool, nuVars, fcVars>>

ReportRows_above(rs) ==
  SelectSeq(rs, LAMBDA r : r.calendar_confidence > CONFIDENCE_THRESHOLD)

\* for r in results: if r.calendar_confidence >= CONFIDENCE_THRESHOLD
ReportRows(rs) ==
  SelectSeq(rs, LAMBDA r : r.calendar_confidence >= CONFIDENCE_THRESHOLD)

\* the loop is over: the calendar scanner writes its report
MainWrite ==
  /\ mode = "calendar"
  /\ main_pc = "gather"
  /\ collected = Len(companies)
  /\ output_csv' = [exists |-> TRUE,
                    lines |-> <<HeaderLine>> \o RowLines(ReportRows(results))]
  /\ main_pc' = "done"
  /\ UNCHANGED <<mode, companies, semaphore, task, completed, collected, results,
                 observe, fetched, apVars, plVars, pool, nuVars, fcVars>>

\* the loop is over: the phone scraper prints its totals
MainFinish ==
  /\ mode = "phone"
  /\ main_pc = "gather"
  /\ collected = Len(companies)
  /\ main_pc' = "done"
  /\ UNCHANGED <<mode, companies, semaphore, task, completed, collected, results,
                 output_csv, observe, fetched, apVars, plVars, pool, nuVars, fcVars>>

Next ==
  \/ MainStart
  \/ \E c \in DOMAIN task : CalStart(c)
  \/ \E c \in DOMAIN task : CalFetchDone(c)
  \/ \E c \in DOMAIN task : PhoneStart(c)
  \/ \E c \in DOMAIN task : PhoneFetchDone(c)
  \/ MainCollect
  \/ MainWrite
  \/ MainFinish

InitRun(ms, cs, obs) ==
  /\ mode \in ms
  /\ companies \in cs
  /\ observe = obs
  /\ semaphore = Limit(mode)
  /\ task = [c \in DOMAIN companies |-> NewTask]
  /\ completed = <<>>
  /\ collected = 0
  /\ results = <<>>
  /\ main_pc = "start"
  /\ output_csv \in {NoFile, StaleFile}
  /\ fetched = [c \in DOMAIN companies |-> <<>>]

PageIdle ==
  /\ ap_html = <<>>
  /\ ap_url = ""
  /\ ap_best = NoEvidence
  /\ ap_i = 1
  /\ ap_pc = "idle"

LeadsIdle ==
  /\ pl_html = <<>>
  /\ pl_text = ""
  /\ pl_matches = <<>>
  /\ pl_k = 1
  /\ pl_result = NoResult
  /\ pl_leads = NoLeads
  /\ pl_pc = "idle"

NoPool == [created |-> 0, in_flight |-> 0, returned |-> 0]

NormalizeIdle ==
  /\ nu_raw = ""
  /\ nu_out = Value("")
  /\ nu_pc = "idle"

ContactsIdle ==
  /\ fc_prev = {}
  /\ fc_tracking = {}
  /\ fc_csv = <<>>
  /\ fc_lock = 0
  /\ fc_worker = <<>>

Idle == PageIdle /\ LeadsIdle /\ pool = NoPool /\ NormalizeIdle /\ ContactsIdle

Init == InitRun({"calendar", "phone"}, CompanyLists, FALSE) /\ Idle

Spec == Init /\ [][Next]_vars

\* one company with a website, and the pages its scan fetched on record
InitSite ==
  /\ InitRun({"calendar", "phone"},
             {cs \in CompanyLists : Len(cs) = 1 /\ cs[1].website = " acme.com "}, TRUE)
  /\ Idle

SpecSite == InitSite /\ [][Next]_vars

\* the event loop runs whatever is ready, and every fetch comes back
FairSite == InitSite /\ [][Next]_vars /\ WF_vars(Next)

-----------------------------------------------------------------------------
(* analyze_page, one check at a time *)

RunIdle ==
  /\ mode = "page"
  /\ companies = <<>>
  /\ observe = FALSE
  /\ semaphore = 0
  /\ task = <<>>
  /\ completed = <<>>
  /\ collected = 0
  /\ results = <<>>
  /\ main_pc = "idle"
  /\ output_csv = NoFile
  /\ fetched = <<>>

InitPage ==
  /\ ap_html \in SeqsUpTo(Elements, MaxTags)
  /\ ap_url \in PageUrls
  /\ ap_best = NoEvidence
  /\ ap_i = 1
  /\ ap_pc = "tag"
  /\ RunIdle /\ LeadsIdle /\ pool = NoPool /\ NormalizeIdle /\ ContactsIdle

ap_full_url == urljoin(ap_url, HrefOf(ap_html[ap_i]))

HostsStep(best, full_url) == CheckHosts(best, full_url, ToLower(full_url), 1)
PathsStep(best, full_url) == CheckPaths(best, full_url, PathOf(full_url), 1)

\* the tag has neither href nor src (or is no a/iframe/script): continue
AnalyzeSkipTag ==
  /\ ap_pc = "tag" /\ ap_i <= Len(ap_html)
  /\ ~HasHref(ap_html[ap_i])
  /\ ap_i' = ap_i + 1
  /\ UNCHANGED <<ap_html, ap_url, ap_best, ap_pc, runVars, plVars, pool, nuVars, fcVars>>

\* urljoin(page_url, href) raises and analyze_page with it
AnalyzeRaise ==
  /\ ap_pc = "tag" /\ ap_i <= Len(ap_html)
  /\ HasHref(ap_html[ap_i])
  /\ urljoin_raises(ap_url, HrefOf(ap_html[ap_i]))
  /\ ap_pc' = "raised"
  /\ UNCHANGED <<ap_html, ap_url, ap_best, ap_i, runVars, plVars, pool, nuVars, fcVars>>

AnalyzeHosts ==
  /\ ap_pc = "tag" /\ ap_i <= Len(ap_html)
  /\ HasHref(ap_html[ap_i])
  /\ ~urljoin_raises(ap_url, HrefOf(ap_html[ap_i]))
  /\ ap_best' = HostsStep(ap_best, ap_full_url)
  /\ ap_pc' = "path"
  /\ UNCHANGED <<ap_html, ap_url, ap_i, runVars, plVars, pool, nuVars, fcVars>>

AnalyzePaths ==
  /\ ap_pc = "path"
  /\ ap_best' = PathsStep(ap_best, ap_full_url)
  /\ ap_pc' = "anchor"
  /\ UNCHANGED <<ap_html, ap_url, ap_i, runVars, plVars, pool, nuVars, fcVars>>

AnalyzeAnchor ==
  /\ ap_pc = "anchor"
  /\ ap_best' = CheckAnchor(ap_best, AnchorText(ap_html[ap_i]), ap_full_url)
  /\ ap_pc' = "tag"
  /\ ap_i' = ap_i + 1
  /\ UNCHANGED <<ap_html, ap_url, runVars, plVars, pool, nuVars, fcVars>>

AnalyzeText ==
  /\ ap_pc = "tag" /\ ap_i > Len(ap_html)
  /\ ap_best' = CheckText(ap_best, ToLower(get_text(ap_html)), ap_url, 1)
  /\ ap_pc' = "return"
  /\ UNCHANGED <<ap_html, ap_url, ap_i, runVars, plVars, pool, nuVars, fcVars>>

NextPage ==
  \/ AnalyzeSkipTag
  \/ AnalyzeRaise
  \/ AnalyzeHosts
  \/ AnalyzePaths
  \/ AnalyzeAnchor
  \/ AnalyzeText

SpecPage == InitPage /\ [][NextPage]_vars

\* the step-wise run returns what the function returns
PageRunIsFunction ==
  /\ ap_pc = "return" => ap_best = analyze_page(ap_html, ap_url)
  /\ ap_pc = "return" => ~analyze_page_raises(ap_html, ap_url)
  /\ ap_pc = "raised" => analyze_page_raises(ap_html, ap_url)

-----------------------------------------------------------------------------
(* One iteration of the loop of process_company on a fetched page, one     *)
(* match at a time                                                         *)

MaxNumbers == 17       \* phone numbers on the largest directory page

\* n characters of filler, n <= 60
Pad(n) == SubSeq("............................................................", 1, n)

TwoDigits(n) == Char("0123456789", (n \div 10) + 1) \o Char("0123456789", (n % 10) + 1)

\* a staff directory with n numbers, the first ones next to a keyword
RECURSIVE Directory(_)
Directory(n) ==
  IF n = 0 THEN "Maintenance:"
  ELSE Directory(n - 1) \o (IF n = 1 THEN " " ELSE ", ") \o "(415) 555-01" \o TwoDigits(n)

Befores ==
  { "Call Greg Ku at ", "Mobile: ", "Emergency line ", "Maintenance Emergency Line: ",
    "Copyright 2024 Acme LLC ", "Toll Free ", "Contact Us ", "Office: ",
    "Owner Services ", "Mary-Anne Smith ", "Madonna ", "John Michael Doe Smith ",
    "Call Us ", "Phone Number ", "Emergency Call ", "After Hours ",
    "fax" \o Pad(52) \o "cell ", "fax" \o Pad(53) \o "cell " }

Numbers == {"(415) 555-0101", "415-555-0101"}

Afters == {"", " for owner services", " (cell)", " fax", " front desk"}

\* "... call our Maintenance Emergency Line at <number> ..."
Scenario3Pages ==
  { <<Tag("p", Null, Null,
          b \o "call our Maintenance Emergency Line at " \o n \o a)>> :
      b \in {"", "Please ", "For repairs "}, n \in Numbers,
      a \in {"", " anytime", " day or night"} }

\* "Call Greg Ku at <number> for owner services"
Scenario4Pages ==
  { <<Tag("p", Null, Null, "Call Greg Ku at " \o n \o " for owner services")>> :
      n \in Numbers }

LeadPages ==
  { <<Tag("p", Null, Null, b \o n \o a)>> : b \in Befores, n \in Numbers, a \in Afters }
    \cup Scenario3Pages
    \cup { <<Tag("p", Null, Null, Directory(n))>> : n \in (DENSITY_LIMIT - 1)..MaxNumbers }
    \cup PhoneBodies
    \cup { <<Tag("p", Null, Null, "Owners: 415-555-0101"),
             Tag("script", Null, Null, "var cell = '415-555-0102'"),
             Tag("p", Null, Null, "After hours (415) 555-0101")>>,
           <<Tag("p", Null, Null, "Emergency (155) 555-0101 or 415-155-0101")>>,
           <<Tag("p", Null, Null, "About us")>> }

InitLeads ==
  /\ pl_html \in LeadPages
  /\ pl_text = ""
  /\ pl_matches = <<>>
  /\ pl_k = 1
  /\ pl_result = NoResult
  /\ pl_leads = NoLeads
  /\ pl_pc = "fetched"
  /\ RunIdle /\ PageIdle /\ pool = NoPool /\ NormalizeIdle /\ ContactsIdle

\* soup.get_text and PhoneNumberMatcher
LeadsExtract ==
  /\ pl_pc = "fetched"
  /\ pl_text' = text_content(pl_html)
  /\ pl_matches' = matches(text_content(pl_html))
  /\ pl_pc' = "density"
  /\ UNCHANGED <<pl_html, pl_k, pl_result, pl_leads, runVars, apVars, pool, nuVars, fcVars>>

\* the density check sends the loop to the next URL
LeadsSkipPage ==
  /\ pl_pc = "density"
  /\ TooDense(pl_matches)
  /\ pl_pc' = "next"
  /\ UNCHANGED <<pl_html, pl_text, pl_matches, pl_k, pl_result, pl_leads,
                 runVars, apVars, pool, nuVars, fcVars>>

\* the body of the loop over matches for the match at pl_k
LeadsAnalyze ==
  /\ pl_pc \in {"density", "match"}
  /\ ~TooDense(pl_matches)
  /\ pl_k <= Len(pl_matches)
  /\ pl_result' = analyze_number(pl_matches[pl_k].number, pl_text,
                                 pl_matches[pl_k].start, pl_matches[pl_k].end)
  /\ pl_leads' = AddLead(pl_leads, pl_result', "Acme", "https://acme.com")
  /\ pl_k' = pl_k + 1
  /\ pl_pc' = "match"
  /\ UNCHANGED <<pl_html, pl_text, pl_matches, runVars, apVars, pool, nuVars, fcVars>>

\* the loop over matches is over
LeadsNextPage ==
  /\ pl_pc \in {"density", "match"}
  /\ ~TooDense(pl_matches)
  /\ pl_k > Len(pl_matches)
  /\ pl_pc' = "next"
  /\ UNCHANGED <<pl_html, pl_text, pl_matches, pl_k, pl_result, pl_leads,
                 runVars, apVars, pool, nuVars, fcVars>>

NextLeads ==
  \/ LeadsExtract
  \/ LeadsSkipPage
  \/ LeadsAnalyze
  \/ LeadsNextPage

SpecLeads == InitLeads /\ [][NextLeads]_vars

\* the step-wise run returns what the function returns
LeadsRunIsFunction ==
  pl_pc = "next" => pl_leads = ScanPage(NoLeads, pl_html, "Acme", "https://acme.com")

-----------------------------------------------------------------------------
(* The semaphore of main with many tasks: only how many tasks are before,  *)
(* inside and after `async with semaphore` matters                         *)

MaxTasks == 32         \* companies in companies.csv

InitPool ==
  /\ mode \in {"calendar", "phone"}
  /\ semaphore = Limit(mode)
  /\ \E n \in 0..MaxTasks : pool = [created |-> n, in_flight |-> 0, returned |-> 0]
  /\ companies = <<>>
  /\ observe = FALSE
  /\ task = <<>>
  /\ completed = <<>>
  /\ collected = 0
  /\ results = <<>>
  /\ main_pc = "gather"
  /\ output_csv = NoFile
  /\ fetched = <<>>
  /\ PageIdle /\ LeadsIdle /\ NormalizeIdle /\ ContactsIdle

\* async with semaphore: a task gets its permit
PoolEnter ==
  /\ pool.created > 0
  /\ can_acquire(semaphore)
  /\ semaphore' = acquire(semaphore)
  /\ pool' = [pool EXCEPT !.created = @ - 1, !.in_flight = @ + 1]
  /\ UNCHANGED <<mode, companies, task, completed, collected, results, main_pc,
                 output_csv, observe, fetched, apVars, plVars, nuVars, fcVars>>

\* the scan returned or raised: the permit goes back
PoolExit ==
  /\ pool.in_flight > 0
  /\ semaphore' = release(semaphore)
  /\ pool' = [pool EXCEPT !.in_flight = @ - 1, !.returned = @ + 1]
  /\ UNCHANGED <<mode, companies, task, completed, collected, results, main_pc,
                 output_csv, observe, fetched, apVars, plVars, nuVars, fcVars>>

NextPool ==
  \/ PoolEnter
  \/ PoolExit

SpecPool == InitPool /\ [][NextPool]_vars

-----------------------------------------------------------------------------
(* normalize_base_url on its own: one call, one action per way out *)

\* what the website column of a row can hold: blanks, a scheme in either
\* case, a host with or without a port, a path, a trailing blank or slash
Leading == {"", " "}
Schemes == {"", "http://", "https://", "ftp://", "HTTP://"}
Hosts == {"", "acme.com", "acme.com:8080", "localhost:3000", "[acme",
          "acme.com/path", "a b.com", "www.acme.com"}
Trailing == {"", " ", "/"}

RawUrls == {l \o sch \o h \o t : l \in Leading, sch \in Schemes, h \in Hosts, t \in Trailing}

InitNormalize ==
  /\ nu_raw \in RawUrls
  /\ nu_out = Value("")
  /\ nu_pc = "call"
  /\ RunIdle /\ PageIdle /\ LeadsIdle /\ pool = NoPool /\ ContactsIdle

\* if not raw: return ""
NormalizeEmpty ==
  /\ nu_pc = "call"
  /\ Strip(nu_raw) = ""
  /\ nu_out' = normalize_base_url(nu_raw)
  /\ nu_pc' = "return"
  /\ UNCHANGED <<nu_raw, runVars, apVars, plVars, pool, fcVars>>

\* urlparse(raw) raises ValueError
NormalizeRaises ==
  /\ nu_pc = "call"
  /\ Strip(nu_raw) # ""
  /\ urlparse(Strip(nu_raw)).raises
  /\ nu_out' = normalize_base_url(nu_raw)
  /\ nu_pc' = "raised"
  /\ UNCHANGED <<nu_raw, runVars, apVars, plVars, pool, fcVars>>

\* if not parsed.scheme: return "https://" + raw
NormalizeNoScheme ==
  /\ nu_pc = "call"
  /\ Strip(nu_raw) # ""
  /\ ~urlparse(Strip(nu_raw)).raises
  /\ urlparse(Strip(nu_raw)).scheme = ""
  /\ nu_out' = normalize_base_url(nu_raw)
  /\ nu_pc' = "return"
  /\ UNCHANGED <<nu_raw, runVars, apVars, plVars, pool, fcVars>>

\* return raw
NormalizeScheme ==
  /\ nu_pc = "call"
  /\ Strip(nu_raw) # ""
  /\ ~urlparse(Strip(nu_raw)).raises
  /\ urlparse(Strip(nu_raw)).scheme # ""
  /\ nu_out' = normalize_base_url(nu_raw)
  /\ nu_pc' = "return"
  /\ UNCHANGED <<nu_raw, runVars, apVars, plVars, pool, fcVars>>

NextNormalize ==
  \/ NormalizeEmpty
  \/ NormalizeRaises
  \/ NormalizeNoScheme
  \/ NormalizeScheme

SpecNormalize == InitNormalize /\ [][NextNormalize]_vars

-----------------------------------------------------------------------------
(* src/find_contacts.py: the worker threads of the contact finder, the      *)
(* leads CSV, the tracking file and csv_lock.  A worker is the call of      *)
(* process_company for one submitted company; what the model search and    *)
(* the parser give it is a list of leads, empty or not.                     *)

MaxContacts == 3       \* companies submitted to the thread pool
MAX_WORKERS == 5

\* threading.Lock: acquire() proceeds only while nobody holds it
can_lock_always(holder) == TRUE
can_lock(holder) == holder = 0

NewWorker == [pc |-> "submitted", leads |-> 0, processed |-> {}]

Running == {w \in DOMAIN fc_worker : fc_worker[w].pc \notin {"submitted", "done"}}

\* main: the tracking file as the earlier runs left it, and the companies
\* not yet in it submitted to the pool
InitContacts ==
  /\ fc_prev \in {{}, {"Omega"}}
  /\ fc_tracking = fc_prev
  /\ fc_csv = <<>>
  /\ fc_lock = 0
  /\ \E n \in 1..MaxContacts : fc_worker = [w \in 1..n |-> NewWorker]
  /\ RunIdle /\ PageIdle /\ LeadsIdle /\ pool = NoPool /\ NormalizeIdle

\* a thread of the pool takes the company
StartWorker(w) ==
  /\ fc_worker[w].pc = "submitted"
  /\ Cardinality(Running) < MAX_WORKERS
  /\ fc_worker' = [fc_worker EXCEPT ![w].pc = "query"]
  /\ UNCHANGED <<fc_prev, fc_tracking, fc_csv, fc_lock, runVars, apVars, plVars, pool, nuVars>>

\* query_gpt5_for_contact and parse_contact_response: the leads of the
\* company; `if leads:` ... else the worker returns
FindLeads(w) ==
  /\ fc_worker[w].pc = "query"
  /\ \E n \in 0..1 :
       fc_worker' = [fc_worker EXCEPT ![w].leads = n,
                                      ![w].pc = IF n > 0 THEN "csv" ELSE "done"]
  /\ UNCHANGED <<fc_prev, fc_tracking, fc_csv, fc_lock, runVars, apVars, plVars, pool, nuVars>>

\* with csv_lock: of append_leads_to_csv, append_leads_to_priority_files
\* and save_processed_company
Lock(w) ==
  /\ fc_worker[w].pc \in {"csv", "priority", "track"}
  /\ can_lock(fc_lock)
  /\ fc_lock' = w
  /\ fc_worker' = [fc_worker EXCEPT ![w].pc = fc_worker[w].pc \o "_locked"]
  /\ UNCHANGED <<fc_prev, fc_tracking, fc_csv, runVars, apVars, plVars, pool, nuVars>>

\* append_leads_to_csv: the rows are appended and the lock is released
AppendLeads(w) ==
  /\ fc_worker[w].pc = "csv_locked"
  /\ fc_csv' = Append(fc_csv, CompanyNames[w])
  /\ fc_lock' = 0
  /\ fc_worker' = [fc_worker EXCEPT ![w].pc = "priority"]
  /\ UNCHANGED <<fc_prev, fc_tracking, runVars, apVars, plVars, pool, nuVars>>

\* append_leads_to_priority_files
AppendPriority(w) ==
  /\ fc_worker[w].pc = "priority_locked"
  /\ fc_lock' = 0
  /\ fc_worker' = [fc_worker EXCEPT ![w].pc = "track"]
  /\ UNCHANGED <<fc_prev, fc_tracking, fc_csv, runVars, apVars, plVars, pool, nuVars>>

\* save_processed_company: processed = load_processed_companies(...);
\* processed.add(company_name)
LoadProcessed(w) ==
  /\ fc_worker[w].pc = "track_locked"
  /\ fc_worker' = [fc_worker EXCEPT ![w].processed = fc_tracking \cup {CompanyNames[w]},
                                     ![w].pc = "track_loaded"]
  /\ UNCHANGED <<fc_prev, fc_tracking, fc_csv, fc_lock, runVars, apVars, plVars, pool, nuVars>>

\* save_processed_company: json.dump({'processed': list(processed)}, f), and
\* the lock is released
SaveProcessed(w) ==
  /\ fc_worker[w].pc = "track_loaded"
  /\ fc_tracking' = fc_worker[w].processed
  /\ fc_lock' = 0
  /\ fc_worker' = [fc_worker EXCEPT ![w].pc = "done"]
  /\ UNCHANGED <<fc_prev, fc_csv, runVars, apVars, plVars, pool, nuVars>>

NextContacts ==
  \/ \E w \in DOMAIN fc_worker : StartWorker(w)
  \/ \E w \in DOMAIN fc_worker : FindLeads(w)
  \/ \E w \in DOMAIN fc_worker : Lock(w)
  \/ \E w \in DOMAIN fc_worker : AppendLeads(w)
  \/ \E w \in DOMAIN fc_worker : AppendPriority(w)
  \/ \E w \in DOMAIN fc_worker : LoadProcessed(w)
  \/ \E w \in DOMAIN fc_worker : SaveProcessed(w)

SpecContacts == InitContacts /\ [][NextContacts]_vars

-----------------------------------------------------------------------------
(* C1 *)

\* C1: when the scan of one company raises, the coordinator (in calendar and
\* in phone mode) still collects a result for every other company and still
\* emits the report: main never dies of the exception and no other scan is
\* cancelled because of it.
C1_CoordinatorSurvives ==
  (\E c \in DOMAIN task : task[c].pc = "raised") =>
     /\ main_pc # "aborted"
     /\ \A d \in DOMAIN task : task[d].pc # "cancelled"

-----------------------------------------------------------------------------
(* C2 *)

\* C2: in every reachable state the number of company scans that hold a
\* permit is at most 20 in calendar mode and at most 30 in phone mode,
\* however many companies were submitted and however the scans interleave.
C2_InFlightBounded ==
  /\ mode = "calendar" => pool.in_flight <= 20
  /\ mode = "phone" => pool.in_flight <= 30
  /\ semaphore >= 0

\* more companies than permits: thirty phone scans in flight, others waiting
C2_Witness ==
  /\ mode = "phone"
  /\ pool.in_flight = 30
  /\ pool.created > 0
  /\ pool.returned > 0

-----------------------------------------------------------------------------
(* C3 *)

\* the fetch gave scan_site a page to analyse
Succeeded(outcome) ==
  outcome.kind = "response" /\ outcome.status < 400 /\ outcome.body # <<>>

\* the positions in fetched[c] of the pages fetched with content
PagesWithContent(c) == {i \in 1..Len(fetched[c]) : Succeeded(fetched[c][i].outcome)}

PageEvidence(c, i) == Analyzed[fetched[c][i].outcome.body][fetched[c][i].url]

PageScores(c) == {PageEvidence(c, i).score : i \in PagesWithContent(c)} \cup {0}

MaxPageScore(c) == CHOOSE s \in PageScores(c) : \A r \in PageScores(c) : r <= s

EarliestBest(c) ==
  CHOOSE i \in PagesWithContent(c) :
    /\ PageEvidence(c, i).score = MaxPageScore(c)
    /\ \A j \in PagesWithContent(c) : PageEvidence(c, j).score = MaxPageScore(c) => i <= j

SameEvidence(result, ev) ==
  /\ result.calendar_confidence = ev.score
  /\ result.evidence_url = ev.url
  /\ result.evidence_type = ev.type
  /\ result.evidence_detail = ev.detail

\* C3: for a company with a website, the score of the calendar ScanResult is
\* the maximum page score over the candidate pages fetched with content, and
\* its evidence is that of the earliest page, in candidate-path order, that
\* attains the maximum.
C3_BestPageWins ==
  mode = "calendar" =>
    \A c \in DOMAIN task :
      task[c].pc = "done" =>
        /\ \A i \in 1..Len(fetched[c]) :
             fetched[c][i].url = Candidate[task[c].base_url][i]
        /\ task[c].result.calendar_confidence = MaxPageScore(c)
        /\ SameEvidence(task[c].result,
                        IF PagesWithContent(c) = {} THEN NoEvidence
                        ELSE PageEvidence(c, EarliestBest(c)))

\* two pages with the same best score: the evidence is the first page's
C3_Witness ==
  /\ mode = "calendar"
  /\ \E c \in DOMAIN task :
       /\ task[c].pc = "done"
       /\ PagesWithContent(c) = {1, 2}
       /\ PageEvidence(c, 1).score = 70
       /\ PageEvidence(c, 2).score = 70
       /\ PageEvidence(c, 1).url # PageEvidence(c, 2).url
       /\ task[c].result.evidence_url = fetched[c][1].url

-----------------------------------------------------------------------------
(* C4 *)

\* the positions of the a/iframe/script elements whose resolved URL holds a
\* scheduler host pattern
SchedulerLinks(html, page_url) ==
  { i \in 1..Len(html) :
      /\ HasHref(html[i])
      /\ \E k \in 1..Len(SCHEDULER_HOST_PATTERNS) :
           Contains(ToLower(urljoin(page_url, HrefOf(html[i]))), SCHEDULER_HOST_PATTERNS[k]) }

FirstSchedulerLink(html, page_url) ==
  CHOOSE i \in SchedulerLinks(html, page_url) :
    \A j \in SchedulerLinks(html, page_url) : i <= j

\* C4: a page with at least one a/iframe/script URL that matches a scheduler
\* host pattern is returned with score 100, type external_scheduler and the
\* URL of the first such element, whatever else is on the page.
C4_SchedulerHostWins ==
  (ap_pc = "return" /\ SchedulerLinks(ap_html, ap_url) # {}) =>
     /\ ap_best.score = 100
     /\ ap_best.type = "external_scheduler"
     /\ ap_best.url = urljoin(ap_url, HrefOf(ap_html[FirstSchedulerLink(ap_html, ap_url)]))

\* a returned page with two scheduler links, the first of them after a
\* path-keyword link
C4_Witness ==
  /\ ap_pc = "return"
  /\ Len(ap_html) = 3
  /\ Cardinality(SchedulerLinks(ap_html, ap_url)) = 2
  /\ FirstSchedulerLink(ap_html, ap_url) = 2
  /\ ap_html[1].href = "/book-now"
  /\ ap_html[2] # ap_html[3]

-----------------------------------------------------------------------------
(* C5 *)

\* the website field is empty or only whitespace
Blank(website) == website # Null /\ Strip(website) = ""

\* C5: a company whose website is empty or blank gets a result with score 0
\* and no evidence URL (an empty lead list from the phone scraper), and no
\* page is ever fetched for it.
C5_NoWebsiteNoFetch ==
  \A c \in DOMAIN task :
    Blank(companies[c].website) =>
      /\ task[c].pc \in {"created", "done", "cancelled"}
      /\ task[c].url = ""
      /\ (task[c].pc = "done" /\ mode = "calendar") =>
           /\ task[c].result.calendar_confidence = 0
           /\ task[c].result.evidence_url = Null
      /\ (task[c].pc = "done" /\ mode = "phone") => task[c].result = <<>>

\* a blank website scanned to its zero result while another company's page
\* is being fetched
C5_Witness ==
  /\ mode = "calendar"
  /\ \E c, d \in DOMAIN task :
       /\ companies[c].website = "  "
       /\ task[c].pc = "done"
       /\ task[c].result.evidence_detail = "no_website"
       /\ task[d].pc = "fetching"

-----------------------------------------------------------------------------
(* C6 *)

\* status >= 400, a timeout, a DNS failure or another transport exception
Failed(outcome) == outcome.kind # "response" \/ outcome.status >= 400

Fetcher(outcome) == IF mode = "calendar" THEN fetch(outcome) ELSE fetch_html(outcome)

\* how many pages the scan of company c probes
PagesToProbe(c) ==
  IF mode = "calendar" THEN Len(Paths)
  ELSE Cardinality(Urls[companies[c].website].urls)

\* C6: a fetch that fails hands its caller "no content", never an exception;
\* the scan goes on to the next candidate page and the company scan returns
\* a result.
C6_FetchNeverRaises ==
  \A c \in DOMAIN task :
    /\ task[c].pc = "raised" =>
         (Len(fetched[c]) > 0 /\ ~Failed(fetched[c][Len(fetched[c])].outcome))
    /\ \A i \in 1..Len(fetched[c]) :
         Failed(fetched[c][i].outcome) =>
           /\ ~Fetcher(fetched[c][i].outcome).raised
           /\ NotHtml(Fetcher(fetched[c][i].outcome))
           /\ i < Len(fetched[c]) \/ task[c].pc \in {"fetching", "done"}
           /\ (i = Len(fetched[c]) /\ task[c].pc = "fetching") =>
                \A j \in 1..i : task[c].url # fetched[c][j].url
           /\ (i = Len(fetched[c]) /\ task[c].pc = "done") => i = PagesToProbe(c)

\* a timeout on the first page, a booking link found on the second
C6_Witness ==
  /\ mode = "calendar"
  /\ \E c \in DOMAIN task :
       /\ task[c].pc = "done"
       /\ Len(fetched[c]) = 2
       /\ fetched[c][1].outcome = Timeout
       /\ task[c].result.calendar_confidence = 100

-----------------------------------------------------------------------------
(* C7 *)

Written == output_csv \notin {NoFile, StaleFile}

Reported(c) == {i \in 2..Len(output_csv.lines) : output_csv.lines[i] = RowLine(task[c].result)}

\* C7: the calendar report is written only after the scan of every company
\* has completed, and it then holds exactly one row for each company whose
\* best score is at least 60 and no row for any other company.
C7_ReportAfterAllScans ==
  (mode = "calendar" /\ Written) =>
     /\ \A c \in DOMAIN task : task[c].pc = "done"
     /\ collected = Len(companies)
     /\ output_csv.lines[1] = HeaderLine
     /\ \A c \in DOMAIN task :
          Cardinality(Reported(c)) =
            IF task[c].result.calendar_confidence >= 60 THEN 1 ELSE 0
     /\ \A i \in 2..Len(output_csv.lines) : \E c \in DOMAIN task : i \in Reported(c)

\* a report with the row of a company at exactly 60 and none for one at 50
C7_Witness ==
  /\ mode = "calendar" /\ Written
  /\ Len(companies) = 2
  /\ Len(output_csv.lines) = 2
  /\ \E c, d \in DOMAIN task :
       /\ task[c].result.calendar_confidence = 60
       /\ task[d].result.calendar_confidence = 50

-----------------------------------------------------------------------------
(* C8 *)

\* the rows of the companies completed so far, in the order they completed
RECURSIVE RowsOfCompleted(_)
RowsOfCompleted(n) ==
  IF n = 0 THEN <<>>
  ELSE RowsOfCompleted(n - 1) \o RowLines(task[completed[n]].result)

Headers == {i \in 1..Len(output_csv.lines) : output_csv.lines[i] = HeaderLine}

\* C8 as stated: from the start of a phone run on, the file holds at every
\* point exactly one header row, the first, followed by the rows of the
\* companies completed so far, each company's rows contiguous.
C8_HeaderAtEveryPoint ==
  (mode = "phone" /\ main_pc # "start") =>
     /\ Headers = {1}
     /\ output_csv.lines = <<HeaderLine>> \o RowsOfCompleted(Len(completed))

\* C8 amended: the report of an earlier run is deleted at the start; there is
\* no file until the first company with at least one lead completes; from
\* then on the file holds one header row, the first, followed by the rows of
\* the companies completed so far in completion order, each company's rows
\* contiguous.
C8_AppendedPerCompany ==
  (mode = "phone" /\ main_pc # "start") =>
     output_csv = IF RowsOfCompleted(Len(completed)) = <<>> THEN NoFile
                  ELSE [exists |-> TRUE,
                        lines |-> <<HeaderLine>> \o RowsOfCompleted(Len(completed))]

\* two companies with a lead each, the second one completed first
C8_Witness ==
  /\ mode = "phone"
  /\ completed = <<2, 1>>
  /\ Len(output_csv.lines) = 3
  /\ output_csv.lines[2].data.company_name = "Beta"
  /\ output_csv.lines[3].data.company_name = "Acme"

-----------------------------------------------------------------------------
(* C9 *)

\* C9: a page with more than 15 phone-number matches contributes no lead,
\* whatever its content; a page with 15 or fewer is not skipped: every one
\* of its matches is analysed.
C9_DensityGuard ==
  pl_pc = "next" =>
    IF Len(pl_matches) > 15
    THEN pl_leads = NoLeads /\ pl_k = 1
    ELSE pl_k = Len(pl_matches) + 1

\* a directory of 16 numbers, the first of which would have been a lead
C9_Witness ==
  /\ pl_pc = "next"
  /\ Len(pl_matches) = 16
  /\ ~analyze_number(pl_matches[1].number, pl_text,
                     pl_matches[1].start, pl_matches[1].end).none
  /\ pl_leads = NoLeads

-----------------------------------------------------------------------------
(* C10 *)

\* a blacklist token in the 60 characters before or after the match
TokenInContext(text, m) ==
  \E k \in 1..Len(BLACKLIST_CONTEXT) :
    \/ Contains(ToLower(TextBefore(text, m.start)), BLACKLIST_CONTEXT[k])
    \/ Contains(ToLower(TextAfter(text, m.end)), BLACKLIST_CONTEXT[k])

-----------------------------------------------------------------------------
(* C11 *)

\* the context and the name of the match analysed last
LastBefore == TextBefore(pl_text, pl_matches[pl_k - 1].start)
LastContext == FullContext(LastBefore, TextAfter(pl_text, pl_matches[pl_k - 1].end))
LastName == extract_name_before_number(LastBefore)

\* the context holds a keyword of the category
KeywordOf(category, context) ==
  \E k \in 1..Len(CATEGORIES[category].keywords) :
    Contains(context, CATEGORIES[category].keywords[k])

AnyKeyword(context) ==
  \E category \in {"OPS_MAINTENANCE", "DIRECT_MOBILE", "GROWTH_OWNER"} :
    KeywordOf(category, context)

\* C11: a returned lead whose context matched a category keyword and for
\* which a name was extracted has confidence 100; a returned lead with a
\* category keyword and no extracted name has confidence strictly below 100.
C11_ConfidenceMonotone ==
  (pl_pc = "match" /\ ~pl_result.none /\ AnyKeyword(LastContext)) =>
     /\ pl_result.contact_name = LastName
     /\ LastName # Null => pl_result.confidence_score = 100
     /\ LastName = Null => pl_result.confidence_score < 100

\* "Owner Services 415-555-0101": a keyword and a name, confidence 100
C11_Witness ==
  /\ pl_pc = "match" /\ ~pl_result.none
  /\ KeywordOf("GROWTH_OWNER", LastContext)
  /\ ~KeywordOf("OPS_MAINTENANCE", LastContext)
  /\ ~KeywordOf("DIRECT_MOBILE", LastContext)
  /\ LastName = "Owner Services"
  /\ pl_result.confidence_score = 100

-----------------------------------------------------------------------------
(* C12 *)

\* C12: a phone match with no category keyword in its context and no
\* extracted name is discarded, and every lead collected for the report
\* carries a keyword category or an extracted contact name.
C12_FinalAdmission ==
  /\ (pl_pc = "match" /\ ~AnyKeyword(LastContext) /\ LastName = Null) => pl_result.none
  /\ (pl_pc = "match" /\ ~pl_result.none) => (AnyKeyword(LastContext) \/ LastName # Null)
  /\ \A i \in 1..Len(pl_leads.found_leads) :
       \/ pl_leads.found_leads[i].category
            \in {"OPS_MAINTENANCE", "DIRECT_MOBILE", "GROWTH_OWNER"}
       \/ pl_leads.found_leads[i].contact_name # Null

\* "Office: 415-555-0101": nothing blacklisted, no keyword, no name, dropped
C12_Witness ==
  /\ pl_pc = "match"
  /\ ~Blacklisted(LastContext)
  /\ ~AnyKeyword(LastContext)
  /\ LastName = Null
  /\ pl_result.none
  /\ pl_leads.found_leads = <<>>

-----------------------------------------------------------------------------
(* C13 *)

\* what analyze_number returned for the matches of one page, in the order
\* of the matches, the None results left out
ResultsOf(text, ms) ==
  IF TooDense(ms) THEN <<>>
  ELSE SelectSeq([k \in 1..Len(ms) |->
                    analyze_number(ms[k].number, text, ms[k].start, ms[k].end)],
                 LAMBDA x : ~x.none)

PageResults(r) ==
  IF NotHtml(r) THEN <<>>
  ELSE ResultsOf(text_content(r.html), matches(text_content(r.html)))

\* every occurrence of a lead on the pages company c has scanned, in the
\* order of the scan
RECURSIVE OccurrencesUpTo(_, _)
OccurrencesUpTo(c, i) ==
  IF i = 0 THEN <<>>
  ELSE OccurrencesUpTo(c, i - 1) \o PageResults(fetch_html(fetched[c][i].outcome))

Occurrences(c) == OccurrencesUpTo(c, Len(fetched[c]))

\* the occurrences that are the first of their number
RECURSIVE FirstOccurrences(_, _)
FirstOccurrences(occ, i) ==
  IF i = 0 THEN <<>>
  ELSE IF \E j \in 1..(i - 1) : occ[j].phone_number = occ[i].phone_number
       THEN FirstOccurrences(occ, i - 1)
       ELSE Append(FirstOccurrences(occ, i - 1), occ[i])

SameLead(lead, occurrence, c) ==
  lead = [occurrence EXCEPT !.company_name = companies[c].company_name,
                            !.website = task[c].base_url]

LeadsAreFirstOccurrences(c, leads, firsts) ==
  /\ Len(leads) = Len(firsts)
  /\ \A i \in 1..Len(leads) : SameLead(leads[i], firsts[i], c)

\* C13: at every point of a company's phone scan no two of its leads share
\* a formatted number, and its leads are exactly the first occurrences of
\* each number on the pages scanned so far, with the metadata of that
\* occurrence.
C13_FirstOccurrenceWins ==
  mode = "phone" =>
    \A c \in DOMAIN task :
      task[c].pc \in {"fetching", "done"} =>
        /\ \A i, j \in 1..Len(task[c].found_leads) :
             task[c].found_leads[i].phone_number = task[c].found_leads[j].phone_number
               => i = j
        /\ LeadsAreFirstOccurrences(
             c, task[c].found_leads,
             FirstOccurrences(Occurrences(c), Len(Occurrences(c))))

\* the page with "Mobile: 415-555-0101" is scanned before the page with
\* "Call Greg Ku at (415) 555-0101": one lead, the mobile one
C13_Witness ==
  /\ mode = "phone"
  /\ task[1].pc = "done"
  /\ Len(Occurrences(1)) = 2
  /\ Occurrences(1)[1].category = "DIRECT_MOBILE"
  /\ Occurrences(1)[2].category = "GROWTH_OWNER"
  /\ Occurrences(1)[1].phone_number = Occurrences(1)[2].phone_number
  /\ Len(task[1].found_leads) = 1
  /\ task[1].found_leads[1].category = "DIRECT_MOBILE"
  /\ task[1].found_leads[1].contact_name = Null

-----------------------------------------------------------------------------
(* C14 *)

\* C14: normalize_base_url returns "" for the input "", a result that
\* starts with "https://" for every non-blank input that lacks "://", and
\* the trimmed input for an input that has "://" after a scheme.
C14_NormalizerContract ==
  (nu_pc = "return" /\ ~nu_out.raises) =>
     /\ nu_raw = "" => nu_out.value = ""
     /\ (Strip(nu_raw) # "" /\ ~Contains(nu_raw, "://"))
          => StartsWith(nu_out.value, "https://")
     /\ Find(Strip(nu_raw), "://") > 0 => nu_out.value = Strip(nu_raw)

-----------------------------------------------------------------------------
(* C15 *)

\* C15: a page whose text is "... call our Maintenance Emergency Line at
\* <number> ..." yields exactly one lead, of category OPS_MAINTENANCE and
\* confidence 90.
C15_ScenarioMaintenanceLine ==
  (pl_pc = "next" /\ pl_html \in Scenario3Pages) =>
     /\ Len(pl_leads.found_leads) = 1
     /\ pl_leads.found_leads[1].category = "OPS_MAINTENANCE"
     /\ pl_leads.found_leads[1].confidence_score = 90

-----------------------------------------------------------------------------
(* C16 *)

\* C16: a page whose text is "Call Greg Ku at <number> for owner services"
\* yields exactly one lead, with contact name "Greg Ku", category
\* GROWTH_OWNER and confidence 100.
C16_ScenarioGregKu ==
  (pl_pc = "next" /\ pl_html \in Scenario4Pages) =>
     /\ Len(pl_leads.found_leads) = 1
     /\ pl_leads.found_leads[1].contact_name = "Greg Ku"
     /\ pl_leads.found_leads[1].category = "GROWTH_OWNER"
     /\ pl_leads.found_leads[1].confidence_score = 100

-----------------------------------------------------------------------------
(* C17 *)

\* the links of a page: the hyperlinks, embedded frames and script sources
\* that carry an attribute value
Links(html) ==
  {i \in 1..Len(html) :
     /\ html[i].name \in {"a", "iframe", "script"}
     /\ (html[i].href # Null \/ html[i].src # Null)}

LinkTarget(tag, page_url) ==
  urljoin(page_url, IF tag.href # Null /\ tag.href # "" THEN tag.href ELSE
                    IF tag.src # Null THEN tag.src ELSE "")

SchedulerHostLink(tag, page_url) ==
  \E k \in 1..Len(SCHEDULER_HOST_PATTERNS) :
    Contains(ToLower(LinkTarget(tag, page_url)), SCHEDULER_HOST_PATTERNS[k])

PathKeywordLink(tag, page_url) ==
  \E k \in 1..Len(SCHEDULER_PATH_KEYWORDS) :
    Contains(ToLower(urlparse(LinkTarget(tag, page_url)).path), SCHEDULER_PATH_KEYWORDS[k])

AnchorTextSignal(tag) ==
  Contains(ToLower(tag.text), "schedule") \/ Contains(ToLower(tag.text), "book")

CtaText(html) ==
  \E k \in 1..Len(TEXT_PATTERNS) : re_search(TEXT_PATTERNS[k], ToLower(get_text(html)))

NoSignals(html, page_url) ==
  /\ \A i \in Links(html) :
       /\ ~SchedulerHostLink(html[i], page_url)
       /\ ~PathKeywordLink(html[i], page_url)
       /\ ~AnchorTextSignal(html[i])
  /\ ~CtaText(html)

\* C17: for a page with no link to a scheduler host, no scheduling keyword
\* in the path of a link, no "schedule" or "book" in the anchor text of a
\* link and no call-to-action pattern in its text, analyze_page returns
\* score 0 with evidence URL, type and detail all None.
C17_NoSignalsNoEvidence ==
  (ap_pc = "return" /\ NoSignals(ap_html, ap_url)) =>
     /\ ap_best.score = 0
     /\ ap_best.url = Null
     /\ ap_best.type = Null
     /\ ap_best.detail = Null

\* a page of three elements, links among them, and nothing about scheduling
C17_Witness ==
  /\ ap_pc = "return"
  /\ Len(ap_html) = 3
  /\ \E i, j \in Links(ap_html) : ap_html[i].name = "a" /\ ap_html[j].name = "script"
  /\ NoSignals(ap_html, ap_url)
  /\ ap_best = NoEvidence

-----------------------------------------------------------------------------
(* C18 *)

\* C18: in both modes the fetcher hands back the body of every response
\* whose status is below 400, and no content only for a status of 400 or
\* more or a transport failure.
C18_BodyBelow400 ==
  \A c \in DOMAIN task :
    \A i \in 1..Len(fetched[c]) :
      /\ (fetched[c][i].outcome.kind = "response" /\ fetched[c][i].outcome.status < 400)
           => Fetcher(fetched[c][i].outcome) = Content(fetched[c][i].outcome.body)
      /\ Failed(fetched[c][i].outcome) => NotHtml(Fetcher(fetched[c][i].outcome))

-----------------------------------------------------------------------------
(* C19 *)

\* the best score over the first i pages company c fetched
RunningBest(c, i) ==
  CHOOSE s \in {PageEvidence(c, j).score : j \in PagesWithContent(c) \cap 1..i} \cup {0} :
    \A j \in PagesWithContent(c) \cap 1..i : PageEvidence(c, j).score <= s

\* the running best reached 95 with the analysis of page i
Reached95(c, i) == Succeeded(fetched[c][i].outcome) /\ RunningBest(c, i) >= 95

\* C19: in calendar mode the candidate pages are fetched in the fixed order;
\* once the running best score is 95 or more after the analysis of a page
\* no further page of the company is fetched, and while it is below 95 the
\* scan goes on to the next candidate path until all have been tried.
C19_EarlyExit ==
  mode = "calendar" =>
    \A c \in DOMAIN task :
      task[c].pc \in {"fetching", "done"} =>
        /\ \A i \in 1..Len(fetched[c]) :
             /\ fetched[c][i].url = Candidate[task[c].base_url][i]
             /\ Reached95(c, i) => (i = Len(fetched[c]) /\ task[c].pc = "done")
        /\ task[c].pc = "fetching" =>
             /\ Len(fetched[c]) < Len(Paths)
             /\ task[c].url = Candidate[task[c].base_url][Len(fetched[c]) + 1]
        /\ task[c].pc = "done" =>
             \/ Len(fetched[c]) = Len(Paths)
             \/ Len(fetched[c]) > 0 /\ Reached95(c, Len(fetched[c]))

\* the first candidate page scores 100 and the second is never fetched
C19_Witness ==
  /\ mode = "calendar"
  /\ \E c \in DOMAIN task :
       /\ task[c].pc = "done"
       /\ Len(fetched[c]) = 1
       /\ Len(Paths) > 1
       /\ Reached95(c, 1)
       /\ task[c].result.calendar_confidence = 100

-----------------------------------------------------------------------------
(* C20 *)

\* the keyword sets in the order of the check, each with its confidence
PRIORITY ==
  << [category |-> "OPS_MAINTENANCE", confidence |-> 90],
     [category |-> "DIRECT_MOBILE", confidence |-> 95],
     [category |-> "GROWTH_OWNER", confidence |-> 85] >>

\* the earliest set in that order with a keyword in the context
EarliestSet(context) ==
  CHOOSE k \in 1..Len(PRIORITY) :
    /\ KeywordOf(PRIORITY[k].category, context)
    /\ \A j \in 1..(k - 1) : ~KeywordOf(PRIORITY[j].category, context)

\* C20: a returned lead whose context holds keywords of one or more of the
\* sets has the category of the earliest set in the order operations /
\* maintenance (90), direct / mobile (95), owner / growth (85), and, when no
\* name was extracted, that set's confidence, even when a later set that
\* also matches has a higher one.
C20_FirstCategoryWins ==
  (pl_pc = "match" /\ ~pl_result.none /\ AnyKeyword(LastContext)) =>
     /\ pl_result.category = PRIORITY[EarliestSet(LastContext)].category
     /\ LastName = Null =>
          pl_result.confidence_score = PRIORITY[EarliestSet(LastContext)].confidence

\* "Emergency line 415-555-0101 (cell)": both an operations and a mobile
\* keyword, no name; the lead is OPS_MAINTENANCE with confidence 90, not 95
C20_Witness ==
  /\ pl_pc = "match" /\ ~pl_result.none
  /\ KeywordOf("OPS_MAINTENANCE", LastContext)
  /\ KeywordOf("DIRECT_MOBILE", LastContext)
  /\ LastName = Null
  /\ pl_result.category = "OPS_MAINTENANCE"
  /\ pl_result.confidence_score = 90

-----------------------------------------------------------------------------
(* C21 *)

\* the capitalised words found before the number of the match analysed last
LastWords == NameSearch(Suffix(LastBefore, 40))

\* C21: when the capitalised words found before the number are one of the
\* common false positives ("Contact Us", "Call Us", "Toll Free", "Phone
\* Number", "Emergency Call", "After Hours"), no name is extracted: the match
\* is neither kept as NAMED_CONTACT nor given confidence 100.
C21_FalsePositivesRejected ==
  (pl_pc = "match" /\ LastWords \in FALSE_POSITIVES) =>
     /\ LastName = Null
     /\ ~pl_result.none =>
          /\ pl_result.contact_name = Null
          /\ pl_result.category # "NAMED_CONTACT"
          /\ pl_result.confidence_score # 100

-----------------------------------------------------------------------------
(* C22 *)

\* the 40 characters before the number of the match analysed last
LastSegment == Suffix(LastBefore, 40)

\* a capitalised word (a capital and then lower-case letters) in the segment
OneWord(segment) == \E k \in 1..Len(segment) : WordEnd(segment, k) > 0

\* two capitalised words in a row, one blank between them
TwoWords(segment) ==
  \E k \in 1..Len(segment) :
    WordEnd(segment, k) > 0 /\ NextWordEnd(segment, WordEnd(segment, k)) > 0

NamedContact(result) ==
  /\ ~result.none
  /\ result.category = "NAMED_CONTACT"
  /\ result.confidence_score = 80
  /\ result.contact_name # Null

-----------------------------------------------------------------------------
(* C23 *)

\* the step of analyze_page from the end of the tag loop to the return
TextStep == ap_pc = "tag" /\ ap_pc' = "return"

\* C23: when the visible text of the page matches a call-to-action pattern
\* the final score is at least 70; if the best score of the link checks was
\* below 70 the result is score 70, type text and the page URL itself as
\* evidence URL, and if it was 70 or more the link evidence stays as it is.
C23_CtaRaisesTo70 ==
  [][(TextStep /\ CtaText(ap_html)) =>
       /\ ap_best'.score >= 70
       /\ ap_best.score < 70 =>
            /\ ap_best'.score = 70
            /\ ap_best'.type = "text"
            /\ ap_best'.url = ap_url
       /\ ap_best.score >= 70 => ap_best' = ap_best]_vars

\* a link that scored 60 by its path and a text with a call to action: the
\* page returns 70 with its own URL
C23_Witness ==
  /\ ap_pc = "return"
  /\ CtaText(ap_html)
  /\ \E i \in Links(ap_html) : PathKeywordLink(ap_html[i], ap_url)
  /\ \A i \in Links(ap_html) : ~SchedulerHostLink(ap_html[i], ap_url)
  /\ ap_best.score = 70
  /\ ap_best.type = "text"
  /\ ap_best.url = ap_url

-----------------------------------------------------------------------------
(* C24 *)

\* C24: in every step of analyze_page the best score does not decrease and
\* the evidence (URL, type, detail) changes only when the score strictly
\* increases, whatever the order of the tags; once the score is 60 or more
\* the path-keyword and anchor-text checks of a later link leave the
\* evidence as it is.
C24_FirstFoundWins ==
  [][/\ ap_best'.score >= ap_best.score
     /\ ap_best' # ap_best => ap_best'.score > ap_best.score
     /\ (ap_best.score >= 60 /\ ap_pc \in {"path", "anchor"}) => ap_best' = ap_best]_vars

\* three links in a row with a path keyword or a "schedule" anchor text:
\* the evidence returned is that of the first one
C24_Witness ==
  /\ ap_pc = "return"
  /\ Len(ap_html) = 3
  /\ \A i \in 1..3 : i \in Links(ap_html) /\ ~SchedulerHostLink(ap_html[i], ap_url)
  /\ PathKeywordLink(ap_html[1], ap_url)
  /\ PathKeywordLink(ap_html[2], ap_url)
  /\ AnchorTextSignal(ap_html[3])
  /\ LinkTarget(ap_html[1], ap_url) # LinkTarget(ap_html[2], ap_url)
  /\ ap_best.score = 60
  /\ ap_best.type = "internal_link"
  /\ ap_best.url = LinkTarget(ap_html[1], ap_url)

-----------------------------------------------------------------------------
(* C25 *)

\* how many requests the scan of company c has sent so far
Started(c) ==
  IF mode = "calendar" THEN task[c].idx
  ELSE IF task[c].pc = "created" THEN 0
  ELSE Cardinality(Urls[companies[c].website].urls) - Cardinality(task[c].todo)

\* how many of them have not come back yet
InFlight(c) == Started(c) - Len(fetched[c])

-----------------------------------------------------------------------------
(* C26 *)

\* the analysis of the i-th page company c fetched did not go through
AnalysisFails(c, i) ==
  /\ Succeeded(fetched[c][i].outcome)
  /\ analyze_page_raises(fetched[c][i].outcome.body, fetched[c][i].url)

\* C26: analyze_page never raises on a malformed page: the page counts as
\* score 0 with no evidence and the scan of the company goes on with the
\* remaining candidate pages instead of aborting.
C26_ParseFailureContained ==
  mode = "calendar" =>
    \A c \in DOMAIN task :
      /\ task[c].pc # "raised"
      /\ \A i \in 1..Len(fetched[c]) :
           AnalysisFails(c, i) =>
             /\ PageEvidence(c, i) = NoEvidence
             /\ i < Len(fetched[c]) \/ task[c].pc \in {"fetching", "done"}
             /\ (i = Len(fetched[c]) /\ task[c].pc = "done") => i = Len(Paths)

-----------------------------------------------------------------------------
(* C27 *)

\* at most one fetch per candidate page
FetchedOnce(c) ==
  /\ Len(fetched[c]) <= PagesToProbe(c)
  /\ \A i, j \in 1..Len(fetched[c]) : fetched[c][i].url = fetched[c][j].url => i = j

\* a permit is out exactly for the scans that are under way
PermitsBack == semaphore = Limit(mode) - Cardinality({c \in DOMAIN task : task[c].pc = "fetching"})

\* the phone scan has no early exit
AllPagesScanned(c) ==
  (mode = "phone" /\ task[c].pc = "done") => Len(fetched[c]) = PagesToProbe(c)

AllCompleted ==
  /\ \A c \in DOMAIN task : task[c].pc = "done"
  /\ Len(results) = Len(companies)

\* C27: when every fetch comes back, a company's scan makes at most one
\* fetch per candidate page (all of them in phone mode), its permit is back
\* on every way out, and every company eventually starts and completes its
\* scan: the run ends with as many results as companies.
C27_EveryScanCompletes ==
  /\ [](PermitsBack /\ \A c \in DOMAIN task : FetchedOnce(c) /\ AllPagesScanned(c))
  /\ <>[]AllCompleted

-----------------------------------------------------------------------------
(* C28 *)

\* a score with the evidence URL and type that may go with it
TypeTied(score, url, type) ==
  /\ score \in {0, 50, 60, 70, 100}
  /\ type \in {Null, "external_scheduler", "internal_link", "text"}
  /\ score = 0 <=> url = Null
  /\ score = 0 <=> type = Null
  /\ type = "external_scheduler" <=> score = 100
  /\ type = "internal_link" => score = 60
  /\ type = "text" => score \in {50, 70}

\* the pages company c fetched and analysed
PagesAnalysed(c) == {i \in PagesWithContent(c) : ~AnalysisFails(c, i)}

HasSchedulerLink(c, i) ==
  SchedulerLinks(fetched[c][i].outcome.body, fetched[c][i].url) # {}

\* C28: every score of analyze_page and every calendar_confidence is one of
\* 0, 50, 60, 70, 100 and the evidence type goes with it (0 iff no evidence
\* URL and type, external_scheduler iff 100, internal_link only with 60,
\* text only with 50 or 70); the scan stops early exactly at a page with a
\* scheduler host link, and every row of the report has score 60, 70 or 100.
C28_ScoresAndTypes ==
  mode = "calendar" =>
    /\ \A c \in DOMAIN task :
         /\ \A i \in PagesAnalysed(c) :
              /\ TypeTied(PageEvidence(c, i).score, PageEvidence(c, i).url,
                          PageEvidence(c, i).type)
              /\ HasSchedulerLink(c, i) <=> PageEvidence(c, i).score = 100
              /\ HasSchedulerLink(c, i) => (i = Len(fetched[c]) /\ task[c].pc = "done")
         /\ task[c].pc = "done" =>
              /\ TypeTied(task[c].result.calendar_confidence, task[c].result.evidence_url,
                          task[c].result.evidence_type)
              /\ (0 < Len(fetched[c]) /\ Len(fetched[c]) < Len(Paths))
                   => (Len(fetched[c]) \in PagesAnalysed(c)
                         /\ HasSchedulerLink(c, Len(fetched[c])))
    /\ Written =>
         \A i \in 2..Len(output_csv.lines) :
           output_csv.lines[i].data.calendar_confidence \in {60, 70, 100}

\* a page with a path-keyword link and then a scheduler frame: 100, the
\* scan stops, and the report has the row
C28_Witness ==
  /\ mode = "calendar" /\ Written
  /\ \E c \in DOMAIN task :
       /\ Len(fetched[c]) = 1
       /\ Len(fetched[c][1].outcome.body) = 2
       /\ HasSchedulerLink(c, 1)
       /\ task[c].result.calendar_confidence = 100
       /\ task[c].result.evidence_type = "external_scheduler"
       /\ Len(output_csv.lines) = 2
       /\ output_csv.lines[2].data.calendar_confidence = 100

-----------------------------------------------------------------------------
(* C29 *)

\* the orders in which n pages can be visited
VisitOrders(n) == {order \in [1..n -> 1..n] : \A i, j \in 1..n : order[i] = order[j] => i = j}

\* the occurrences of leads on the pages company c fetched, had they been
\* visited in the given order
RECURSIVE OccurrencesIn(_, _, _)
OccurrencesIn(c, order, i) ==
  IF i = 0 THEN <<>>
  ELSE OccurrencesIn(c, order, i - 1)
         \o PageResults(fetch_html(fetched[c][order[i]].outcome))

\* the leads kept of a sequence of occurrences
LeadsOf(c, firsts) ==
  { [firsts[k] EXCEPT !.company_name = companies[c].company_name,
                      !.website = task[c].base_url] : k \in 1..Len(firsts) }

FirstOf(occ) == FirstOccurrences(occ, Len(occ))

\* the leads of that scan
LeadsIn(c, order) == LeadsOf(c, FirstOf(OccurrencesIn(c, order, Len(order))))

FoundLeads(c) == {task[c].found_leads[k] : k \in 1..Len(task[c].found_leads)}

\* C29: the leads reported for a company in phone mode depend on the
\* contents of its pages alone: a scan that visits the same pages with the
\* same contents in any other order reports the same leads.
C29_OrderIndependent ==
  mode = "phone" =>
    \A c \in DOMAIN task :
      task[c].pc = "done" =>
        \A order \in VisitOrders(Len(fetched[c])) : LeadsIn(c, order) = FoundLeads(c)

-----------------------------------------------------------------------------
(* C30 *)

\* the companies with a row in the leads CSV
InCsv == {fc_csv[i] : i \in 1..Len(fc_csv)}

AllWorkersDone == \A w \in DOMAIN fc_worker : fc_worker[w].pc = "done"

\* C30: for every interleaving of the workers no update of the tracking
\* file is lost (what was tracked before stays, a company a worker has
\* saved stays, and when all workers are done the file holds the companies
\* tracked before and those with leads written in this run); a company is
\* in the file only after its leads are in the leads CSV, and a company
\* without leads is never in it.
C30_TrackingFile ==
  /\ fc_prev \subseteq fc_tracking
  /\ \A w \in DOMAIN fc_worker :
       /\ (fc_worker[w].pc = "done" /\ fc_worker[w].leads > 0)
            => CompanyNames[w] \in fc_tracking
       /\ CompanyNames[w] \in fc_tracking
            => (CompanyNames[w] \in InCsv /\ fc_worker[w].leads > 0)
  /\ AllWorkersDone => fc_tracking = fc_prev \cup InCsv

\* three workers, two with leads and one without, all done, and a company
\* tracked by an earlier run
C30_Witness ==
  /\ Len(fc_worker) = 3
  /\ AllWorkersDone
  /\ fc_prev = {"Omega"}
  /\ fc_worker[1].leads > 0 /\ fc_worker[2].leads = 0 /\ fc_worker[3].leads > 0
  /\ fc_csv = <<CompanyNames[3], CompanyNames[1]>>
  /\ fc_tracking = {"Omega", CompanyNames[1], CompanyNames[3]}

=============================================================================
